---- MODULE Spec2Model ----
(***************************************************************************)
(* Organize engine of zhili-file-organizer.                                *)
(*                                                                         *)
(* Two execution engines exist in the repository:                          *)
(*   - the IPC handlers fs:executeOrganize / fs:undoOrganize of            *)
(*     electron/main.ts (engine = "ipc"), driven by the renderer;          *)
(*   - the class FileService (engine = "svc").                             *)
(*                                                                         *)
(* The file system is modelled as                                          *)
(*   files   : path -> content   (the regular files that exist)            *)
(*   dirs    : the sub-directories that exist under the engine's root      *)
(*   backups : backup path -> content (the per-run backup area in temp)    *)
(* A path is [dir, name]; dir "." is the organized folder itself, any      *)
(* other dir is the sub-directory of that name.  A name is [base, ext];    *)
(* base is a sequence <<stem, k1, k2, ...>> standing for the string        *)
(* stem_k1_k2..., so that appending a conflict counter is Append.          *)
(*                                                                         *)
(* Category labels are written in English (Image = '图片', Document =      *)
(* '文档', Shortcut = '快捷方式', Folder = '文件夹', Other = '其他', ...). *)
(***************************************************************************)
EXTENDS Integers, Sequences, FiniteSets, TLC

VARIABLES
  engine,     \* which code is under test in this behaviour
  files,      \* path -> content
  dirs,       \* existing sub-directories
  backups,    \* backup path -> content
  undoStack,  \* main.ts: let undoStack: UndoInfo[]
  history,    \* FileService: private history: OperationHistory[]
  plan,       \* the plan handed to execute
  fault,      \* the file-system call that fails in this environment
  runs,       \* number of execute calls so far
  snaps,      \* observation: the file system before the run of each pushed log
  last,       \* observation of the last handler call (not program state)
  step,       \* App: const [step, setStep] = useState<AppStep>('select')
  uiPlan,     \* App: const [plan, setPlan] = useState<OrganizePlan | null>(null)
  reqs,       \* the handler invocations in flight in the main process
  child       \* the opencode child process of the call in flight, with the
              \* timer and the promise of that call
\* uiPlan.edits counts the preview edits of a behaviour; it is no field of
\* OrganizePlan and only bounds the exploration.

vars ==
  <<engine, files, dirs, backups, undoStack, history, plan, fault, runs, snaps, last,
    step, uiPlan, reqs, child>>

\* no call of opencode in flight
NoChild == [proc |-> "none"]

----------------------------------------------------------------------------
(* Bounds *)
MaxPlanFiles == 2
MaxRuns == 2

----------------------------------------------------------------------------
(* Paths and names *)

NoName == [base |-> <<>>, ext |-> ""]
NameOf(stem) == [base |-> <<stem>>, ext |-> ".jpg"]
Join(d, n) == [dir |-> d, name |-> n]
DirPath(c) == Join(c, NoName)
dirname(p) == p.dir
basename(p) == p.name
NoPath == Join("", NoName)

\* `${base}_${counter}${ext}`
WithCounter(n, counter) == [base |-> Append(n.base, counter), ext |-> n.ext]

P1 == Join(".", NameOf(1))
P2 == Join(".", NameOf(2))
P3 == Join(".", NameOf(3))

----------------------------------------------------------------------------
(* File-system calls.  W is a record [files, dirs, backups].  Every call    *)
(* returns [ok, W]: ok = FALSE is the call throwing.                        *)

NoFault == [call |-> "none", at |-> NoPath]
Fails(call, p) == fault.call = call /\ fault.at = p

existsSync(W, p) ==
  IF p.name = NoName THEN p.dir \in W.dirs ELSE p \in DOMAIN W.files

DirExists(W, d) == d = "." \/ d \in W.dirs

\* fs.promises.rename(from, to): replaces an existing destination
RenameCall(W, from, to, inj) ==
  IF (inj /\ Fails("rename", from)) \/ from \notin DOMAIN W.files
     \/ ~DirExists(W, to.dir)
  THEN [ok |-> FALSE, W |-> W]
  ELSE [ok |-> TRUE,
        W |-> [W EXCEPT !.files =
                 [q \in (DOMAIN W.files \ {from}) \cup {to} |->
                    IF q = to THEN W.files[from] ELSE W.files[q]]]]

\* fs.promises.mkdir(dir, {recursive: true}): no error when it exists
MkdirCall(W, p, inj) ==
  IF inj /\ Fails("mkdir", p)
  THEN [ok |-> FALSE, W |-> W]
  ELSE [ok |-> TRUE, W |-> [W EXCEPT !.dirs = @ \cup {p.dir}]]

\* fs.promises.rmdir(dir): fails on a missing or non-empty directory
RmdirCall(W, p) ==
  IF p.dir \notin W.dirs \/ \E q \in DOMAIN W.files : q.dir = p.dir
  THEN [ok |-> FALSE, W |-> W]
  ELSE [ok |-> TRUE, W |-> [W EXCEPT !.dirs = @ \ {p.dir}]]

\* fs.promises.copyFile(from, backupPath)
CopyToBackup(W, from, b, inj) ==
  IF (inj /\ Fails("copy", from)) \/ from \notin DOMAIN W.files
  THEN [ok |-> FALSE, W |-> W]
  ELSE [ok |-> TRUE,
        W |-> [W EXCEPT !.backups =
                 [k \in DOMAIN W.backups \cup {b} |->
                    IF k = b THEN W.files[from] ELSE W.backups[k]]]]

\* fs.promises.copyFile(backupPath, from)
CopyFromBackup(W, b, to) ==
  IF b \notin DOMAIN W.backups \/ ~DirExists(W, to.dir)
  THEN [ok |-> FALSE, W |-> W]
  ELSE [ok |-> TRUE,
        W |-> [W EXCEPT !.files =
                 [q \in DOMAIN W.files \cup {to} |->
                    IF q = to THEN W.backups[b] ELSE W.files[q]]]]

\* fs.promises.unlink(path)
UnlinkCall(W, p, inj) ==
  IF (inj /\ Fails("unlink", p)) \/ p \notin DOMAIN W.files
  THEN [ok |-> FALSE, W |-> W]
  ELSE [ok |-> TRUE,
        W |-> [W EXCEPT !.files = [q \in DOMAIN W.files \ {p} |-> W.files[q]]]]

UnlinkBackup(W, b) ==
  IF b \notin DOMAIN W.backups
  THEN [ok |-> FALSE, W |-> W]
  ELSE [ok |-> TRUE,
        W |-> [W EXCEPT !.backups =
                 [k \in DOMAIN W.backups \ {b} |-> W.backups[k]]]]

World == [files |-> files, dirs |-> dirs, backups |-> backups]

----------------------------------------------------------------------------
(* fs:executeOrganize of electron/main.ts.                                  *)
(* R is the state of one run: the world W, the operations logged so far,    *)
(* createdDirs, whether the body threw into the outer catch, and two        *)
(* observation logs: moves (one event per rename issued) and dupev (one     *)
(* event per duplicate handled).                                            *)

Op(type, from, to, backupPath) ==
  [type |-> type, from |-> from, to |-> to, backupPath |-> backupPath]

NewRun(W) ==
  [W |-> W, operations |-> <<>>, createdDirs |-> {}, threw |-> FALSE,
   moves |-> <<>>, dupev |-> <<>>]

\* path.join(app.getPath('temp'), `zhili-backup-${Date.now()}`): one fresh
\* directory per run, named by the time the run starts
BackupDir(run) == Join("zhili-backup", [base |-> <<run>>, ext |-> ""])

\* path.join(backupDir, path.basename(duplicatePath) + '_' + Date.now())
BackupPath(run, duplicatePath) == [run |-> run, name |-> basename(duplicatePath)]

\* step 1, body of the loop over plan.categories
MkdirStep(R, category) ==
  LET categoryPath == DirPath(category)
  IN IF ~existsSync(R.W, categoryPath)
     THEN LET r == MkdirCall(R.W, categoryPath, TRUE)
          IN IF r.ok
             THEN [R EXCEPT !.W = r.W,
                            !.createdDirs = @ \cup {categoryPath},
                            !.operations =
                               Append(@, Op("mkdir", categoryPath, NoPath, NoPath))]
             ELSE [R EXCEPT !.threw = TRUE]
     ELSE R

RECURSIVE CreateDirs(_, _, _)
CreateDirs(categories, i, R) ==
  IF i > Len(categories) \/ R.threw THEN R
  ELSE CreateDirs(categories, i + 1, MkdirStep(R, categories[i]))

\* the conflict loop: while (fs.existsSync(finalPath)) { ... counter++ }
RECURSIVE ConflictLoop(_, _, _, _)
ConflictLoop(W, targetPath, finalPath, counter) ==
  IF existsSync(W, finalPath)
  THEN ConflictLoop(W, targetPath,
                    Join(dirname(targetPath), WithCounter(basename(targetPath), counter)),
                    counter + 1)
  ELSE finalPath

FinalPath_NoCheck(W, targetPath) == targetPath

FinalPath(W, targetPath) == ConflictLoop(W, targetPath, targetPath, 1)

\* if (file.needsMove), if (file.needsRename): a property the caller did not
\* send reads as undefined, which is falsy
Flag(file, name) == name \in DOMAIN file /\ file[name]

\* the target path of one plan file
TargetPath(file) ==
  IF Flag(file, "needsMove")
  THEN Join(file.category,
            IF Flag(file, "needsRename") THEN file.newName ELSE basename(file.path))
  ELSE IF Flag(file, "needsRename")
       THEN Join(dirname(file.path), file.newName)
       ELSE file.path

\* the operation is pushed after the try block, whether or not rename threw
ProcessFile_LogAlways(R, file) ==
  LET currentPath == file.path
      targetPath == TargetPath(file)
  IN IF targetPath # currentPath
     THEN LET finalPath == FinalPath(R.W, targetPath)
              r == RenameCall(R.W, currentPath, finalPath, TRUE)
              ev == [from |-> currentPath, target |-> targetPath, to |-> finalPath,
                     ok |-> r.ok, existed |-> DOMAIN R.W.files]
          IN [R EXCEPT !.W = r.W,
                       !.moves = Append(@, ev),
                       !.operations =
                          Append(@, Op(IF Flag(file, "needsMove") THEN "move" ELSE "rename",
                                       currentPath, finalPath, NoPath))]
     ELSE R

\* step 2, body of the loop over plan.files
ProcessFile(R, file) ==
  LET currentPath == file.path
      targetPath == TargetPath(file)
  IN IF targetPath # currentPath
     THEN LET finalPath == FinalPath(R.W, targetPath)
              r == RenameCall(R.W, currentPath, finalPath, TRUE)
              ev == [from |-> currentPath, target |-> targetPath, to |-> finalPath,
                     ok |-> r.ok, existed |-> DOMAIN R.W.files]
          IN IF r.ok
             THEN [R EXCEPT !.W = r.W,
                            !.moves = Append(@, ev),
                            !.operations =
                               Append(@, Op(IF Flag(file, "needsMove") THEN "move" ELSE "rename",
                                            currentPath, finalPath, NoPath))]
             ELSE [R EXCEPT !.moves = Append(@, ev)]
     ELSE R

RECURSIVE ProcessFiles(_, _, _)
ProcessFiles(fs, i, R) ==
  IF i > Len(fs) THEN R ELSE ProcessFiles(fs, i + 1, ProcessFile(R, fs[i]))

\* step 3, body of the loop over plan.duplicatesToDelete
ProcessDuplicate_UnlinkFirst(R, duplicatePath, run) ==
  LET backupPath == BackupPath(run, duplicatePath)
      present == duplicatePath \in DOMAIN R.W.files
      u == UnlinkCall(R.W, duplicatePath, TRUE)
      c == IF u.ok THEN CopyToBackup(u.W, duplicatePath, backupPath, TRUE)
                   ELSE [ok |-> FALSE, W |-> u.W]
      ev == [path |-> duplicatePath, present |-> present,
             copied |-> c.ok, removed |-> u.ok, logged |-> u.ok /\ c.ok]
  IN IF u.ok /\ c.ok
     THEN [R EXCEPT !.W = c.W, !.dupev = Append(@, ev),
                    !.operations = Append(@, Op("delete", duplicatePath, NoPath, backupPath))]
     ELSE [R EXCEPT !.W = c.W, !.dupev = Append(@, ev)]

ProcessDuplicate(R, duplicatePath, run) ==
  LET backupPath == BackupPath(run, duplicatePath)
      present == duplicatePath \in DOMAIN R.W.files
      c == CopyToBackup(R.W, duplicatePath, backupPath, TRUE)
      u == IF c.ok THEN UnlinkCall(c.W, duplicatePath, TRUE)
                   ELSE [ok |-> FALSE, W |-> c.W]
      ev == [path |-> duplicatePath, present |-> present,
             copied |-> c.ok, removed |-> u.ok, logged |-> c.ok /\ u.ok]
  IN IF c.ok /\ u.ok
     THEN [R EXCEPT !.W = u.W, !.dupev = Append(@, ev),
                    !.operations = Append(@, Op("delete", duplicatePath, NoPath, backupPath))]
     ELSE [R EXCEPT !.W = u.W, !.dupev = Append(@, ev)]

RECURSIVE ProcessDuplicates(_, _, _, _)
ProcessDuplicates(ds, i, R, run) ==
  IF i > Len(ds) THEN R
  ELSE ProcessDuplicates(ds, i + 1, ProcessDuplicate(R, ds[i], run), run)

\* the body of the handler's try block
RunExecute(W, p, run) ==
  IF Fails("mkdir", BackupDir(run))
  THEN [NewRun(W) EXCEPT !.threw = TRUE]
  ELSE LET R1 == CreateDirs(p.categories, 1, NewRun(W))
       IN IF R1.threw THEN R1
          ELSE ProcessDuplicates(p.duplicatesToDelete, 1,
                                 ProcessFiles(p.files, 1, R1), run)

CountType(ops, t) == Cardinality({i \in DOMAIN ops : ops[i].type = t})

\* what the handler returns after undoStack.push
ExecuteResult(operations, createdDirs) ==
  [success |-> TRUE,
   movedFiles |-> CountType(operations, "move"),
   renamedFiles |-> CountType(operations, "rename"),
   deletedFiles |-> CountType(operations, "delete"),
   createdDirs |-> Cardinality(createdDirs)]

----------------------------------------------------------------------------
(* fs:undoOrganize of electron/main.ts.                                     *)
(* U is [W, restored, removed]: removed observes the directories rmdir      *)
(* removed.                                                                 *)

Reverse(s) == [i \in 1..Len(s) |-> s[Len(s) + 1 - i]]

\* body of the loop over lastUndo.operations.reverse()
UndoOp_KeepBackupOnly(U, op) ==
  IF op.type \in {"move", "rename"} /\ op.to # NoPath
  THEN LET r == RenameCall(U.W, op.to, op.from, FALSE)
       IN IF r.ok THEN [U EXCEPT !.W = r.W, !.restored = @ + 1] ELSE U
  ELSE IF op.type = "delete" /\ op.backupPath # NoPath
  THEN [U EXCEPT !.restored = @ + 1]
  ELSE IF op.type = "mkdir"
  THEN LET r == RmdirCall(U.W, op.from)
       IN IF r.ok THEN [U EXCEPT !.W = r.W, !.removed = @ \cup {op.from}] ELSE U
  ELSE U

UndoOp(U, op) ==
  IF op.type \in {"move", "rename"} /\ op.to # NoPath
  THEN LET r == RenameCall(U.W, op.to, op.from, FALSE)
       IN IF r.ok THEN [U EXCEPT !.W = r.W, !.restored = @ + 1] ELSE U
  ELSE IF op.type = "delete" /\ op.backupPath # NoPath
  THEN LET c == CopyFromBackup(U.W, op.backupPath, op.from)
           u == IF c.ok THEN UnlinkBackup(c.W, op.backupPath)
                        ELSE [ok |-> FALSE, W |-> c.W]
       IN IF c.ok /\ u.ok THEN [U EXCEPT !.W = u.W, !.restored = @ + 1]
          ELSE [U EXCEPT !.W = u.W]
  ELSE IF op.type = "mkdir"
  THEN LET r == RmdirCall(U.W, op.from)
       IN IF r.ok THEN [U EXCEPT !.W = r.W, !.removed = @ \cup {op.from}] ELSE U
  ELSE U

\* the loop without the try/catch around its body: the first reversal that
\* fails ends it
RECURSIVE UndoOps_StopAtFailure(_, _, _)
UndoOps_StopAtFailure(ops, i, U) ==
  IF i > Len(ops) \/ (i > 1 /\ ops[i - 1].type # "mkdir" /\ U.restored < i - 1) THEN U
  ELSE UndoOps_StopAtFailure(ops, i + 1,
                             [UndoOp(U, ops[i]) EXCEPT !.attempted = Append(@, ops[i])])

RECURSIVE UndoOps(_, _, _)
UndoOps(ops, i, U) ==
  IF i > Len(ops) THEN U
  ELSE UndoOps(ops, i + 1, [UndoOp(U, ops[i]) EXCEPT !.attempted = Append(@, ops[i])])

\* the loop over the log in the order of execution
RunUndo_Forward(W, lastUndo) ==
  UndoOps(lastUndo.operations, 1,
          [W |-> W, restored |-> 0, removed |-> {}, attempted |-> <<>>])

\* attempted: the operations whose reversal was attempted, in that order
RunUndo(W, lastUndo) ==
  UndoOps(Reverse(lastUndo.operations), 1,
          [W |-> W, restored |-> 0, removed |-> {}, attempted |-> <<>>])

----------------------------------------------------------------------------
(* Observation of the last call *)

Snapshot(W) == [files |-> W.files, dirs |-> W.dirs]

\* plan === null
NoPlan ==
  [files |-> <<>>, categories |-> <<>>, duplicates |-> <<>>, duplicateCount |-> 0,
   categoriesNeedingFolders |-> <<>>, edits |-> 0]

NoObs ==
  [kind |-> "init", success |-> TRUE, immediate |-> FALSE,
   pre |-> [files |-> <<>>, dirs |-> {}], post |-> [files |-> <<>>, dirs |-> {}],
   operations |-> <<>>, moves |-> <<>>, dupev |-> <<>>, createdDirs |-> {},
   removed |-> {}, restored |-> 0, attempts |-> <<>>, stackBefore |-> <<>>,
   before |-> [files |-> <<>>, dirs |-> {}, backups |-> <<>>]]

----------------------------------------------------------------------------
(* Actions of the IPC engine *)

\* the handler with undoStack.push moved out of the try block
FsExecuteOrganize_PushAlways(p) ==
  /\ \E R \in {RunExecute(World, p, runs + 1)} :
        /\ files' = R.W.files
        /\ dirs' = R.W.dirs
        /\ backups' = R.W.backups
        /\ undoStack' = Append(undoStack,
                               [timestamp |-> runs + 1, operations |-> R.operations])
        /\ snaps' = Append(snaps, Snapshot(World))
        /\ last' = [NoObs EXCEPT !.kind = "execute", !.success = ~R.threw,
                                 !.pre = Snapshot(World), !.post = Snapshot(R.W),
                                 !.operations = R.operations, !.moves = R.moves,
                                 !.dupev = R.dupev, !.createdDirs = R.createdDirs,
                                 !.stackBefore = undoStack]
  /\ runs' = runs + 1

\* ipcMain.handle('fs:executeOrganize', async (_, plan) => ...)
FsExecuteOrganize(p) ==
  /\ \E R \in {RunExecute(World, p, runs + 1)} :
        /\ files' = R.W.files
        /\ dirs' = R.W.dirs
        /\ backups' = R.W.backups
        /\ undoStack' = IF R.threw THEN undoStack
                        ELSE Append(undoStack,
                                    [timestamp |-> runs + 1, operations |-> R.operations])
        /\ snaps' = IF R.threw THEN snaps ELSE Append(snaps, Snapshot(World))
        /\ last' = [NoObs EXCEPT !.kind = "execute", !.success = ~R.threw,
                                 !.pre = Snapshot(World), !.post = Snapshot(R.W),
                                 !.operations = R.operations, !.moves = R.moves,
                                 !.dupev = R.dupev, !.createdDirs = R.createdDirs,
                                 !.stackBefore = undoStack]
  /\ runs' = runs + 1

\* ipcMain.handle('fs:undoOrganize', async () => ...)
FsUndoOrganize ==
  /\ IF undoStack = <<>>
     THEN /\ last' = [NoObs EXCEPT !.kind = "undo-empty", !.success = FALSE]
          /\ UNCHANGED <<files, dirs, backups, undoStack, snaps>>
     ELSE \E lastUndo \in {undoStack[Len(undoStack)]} :
          \E U \in {RunUndo(World, lastUndo)} :
             /\ undoStack' = SubSeq(undoStack, 1, Len(undoStack) - 1)
             /\ snaps' = SubSeq(snaps, 1, Len(snaps) - 1)
             /\ files' = U.W.files
             /\ dirs' = U.W.dirs
             /\ backups' = U.W.backups
             /\ last' = [NoObs EXCEPT !.kind = "undo",
                                      !.immediate = (last.kind = "execute" /\ last.success),
                                      !.pre = snaps[Len(snaps)],
                                      !.post = Snapshot(U.W),
                                      !.operations = lastUndo.operations,
                                      !.removed = U.removed,
                                      !.restored = U.restored,
                                      !.attempts = U.attempted,
                                      !.stackBefore = undoStack,
                                      !.before = World]

\* What the user can do to the folder between an execute and an undo, the
\* cases the catch blocks of fs:undoOrganize are written for: a file the run
\* placed is deleted, or a file is added to a directory the run created.
MovedTo(ops) ==
  {ops[i].to : i \in {j \in DOMAIN ops : ops[j].type \in {"move", "rename"}}}

UserFile == [base |-> <<5>>, ext |-> ".jpg"]

UserChange ==
  /\ engine = "ipc"
  /\ runs = MaxRuns /\ fault = NoFault
  /\ last.kind = "execute" /\ last.success
  /\ \/ \E q \in MovedTo(last.operations) \cap DOMAIN files :
          /\ files' = [x \in DOMAIN files \ {q} |-> files[x]]
     \/ \E d \in last.createdDirs :
          /\ files' = files @@ (Join(dirname(d), UserFile) :> 5)
  /\ last' = [NoObs EXCEPT !.kind = "external"]
  /\ UNCHANGED <<engine, dirs, backups, undoStack, history, plan, fault, runs, snaps,
                 step, uiPlan, reqs, child>>

ExecuteOrganize ==
  /\ engine = "ipc"
  /\ runs < MaxRuns
  /\ FsExecuteOrganize(plan)
  /\ UNCHANGED <<engine, plan, fault, history, step, uiPlan, reqs, child>>

UndoOrganize ==
  /\ engine = "ipc"
  /\ last.kind # "undo-empty"
  /\ FsUndoOrganize
  /\ UNCHANGED <<engine, plan, fault, runs, history, step, uiPlan, reqs, child>>

----------------------------------------------------------------------------
(* class FileService.  Files are moved into targetRoot = sourceFolder +     *)
(* '_整理后': for this engine dirs holds the sub-directories of targetRoot,  *)
(* a path with dir "." is in sourceFolder and a path with another dir is in *)
(* that sub-directory of targetRoot.                                        *)

maxHistorySize == 10

DuplicatesBackup == ".duplicates_backup"

\* private makeUniqueName(filePath)
RECURSIVE makeUniqueLoop(_, _, _, _)
makeUniqueLoop(W, filePath, newPath, counter) ==
  IF existsSync(W, newPath)
  THEN makeUniqueLoop(W, filePath,
                      Join(dirname(filePath), WithCounter(basename(filePath), counter)),
                      counter + 1)
  ELSE newPath

makeUniqueName(W, filePath) == makeUniqueLoop(W, filePath, filePath, 1)

\* [...new Set(plan.files.filter(f => f.selected).map(f => f.category))]
RECURSIVE SelectedCategories(_, _, _)
SelectedCategories(fs, i, acc) ==
  IF i > Len(fs) THEN acc
  ELSE SelectedCategories(fs, i + 1,
         IF fs[i].selected /\ \A j \in DOMAIN acc : acc[j] # fs[i].category
         THEN Append(acc, fs[i].category) ELSE acc)

\* step 1, body of the loop: the directory is logged whether or not it existed
SvcMkdirStep(R, category) ==
  LET categoryPath == DirPath(category)
      r == MkdirCall(R.W, categoryPath, TRUE)
  IN IF r.ok
     THEN [R EXCEPT !.W = r.W,
                    !.createdDirs = @ \cup {categoryPath},
                    !.operations = Append(@, Op("create_dir", categoryPath, NoPath, NoPath))]
     ELSE [R EXCEPT !.threw = TRUE]

RECURSIVE SvcCreateDirs(_, _, _)
SvcCreateDirs(categories, i, R) ==
  IF i > Len(categories) \/ R.threw THEN R
  ELSE SvcCreateDirs(categories, i + 1, SvcMkdirStep(R, categories[i]))

\* step 2, body of the loop: a failing rename throws out of the loop
SvcMoveFile(R, file) ==
  IF ~file.selected THEN R
  ELSE LET targetPath == Join(file.category, file.newName)
           dest == IF existsSync(R.W, targetPath)
                   THEN makeUniqueName(R.W, targetPath) ELSE targetPath
           r == RenameCall(R.W, file.path, dest, TRUE)
           ev == [from |-> file.path, target |-> targetPath, to |-> dest,
                  ok |-> r.ok, existed |-> DOMAIN R.W.files]
       IN IF r.ok
          THEN [R EXCEPT !.W = r.W, !.moves = Append(@, ev),
                         !.operations = Append(@, Op("move", file.path, dest, NoPath))]
          ELSE [R EXCEPT !.moves = Append(@, ev), !.threw = TRUE]

RECURSIVE SvcMoveFiles(_, _, _)
SvcMoveFiles(fs, i, R) ==
  IF i > Len(fs) \/ R.threw THEN R
  ELSE SvcMoveFiles(fs, i + 1, SvcMoveFile(R, fs[i]))

\* step 3, one non-keeper: moved (not copied) into targetRoot/.duplicates_backup
SvcBackupDuplicate(R, filePath) ==
  LET backupPath == Join(DuplicatesBackup, basename(filePath))
      m == MkdirCall(R.W, DirPath(DuplicatesBackup), TRUE)
      r == IF m.ok THEN RenameCall(m.W, filePath, backupPath, TRUE)
                   ELSE [ok |-> FALSE, W |-> m.W]
  IN IF r.ok
     THEN [R EXCEPT !.W = r.W,
                    !.operations = Append(@, Op("delete", filePath, backupPath, NoPath))]
     ELSE [R EXCEPT !.W = r.W, !.threw = TRUE]

\* keepIndex is a JavaScript index: group.files[i] is files[i + 1] here
RECURSIVE SvcGroup(_, _, _)
SvcGroup(group, i, R) ==
  IF i >= Len(group.files) \/ R.threw THEN R
  ELSE SvcGroup(group, i + 1,
                IF i # group.keepIndex
                THEN SvcBackupDuplicate(R, group.files[i + 1]) ELSE R)

RECURSIVE SvcGroups(_, _, _)
SvcGroups(groups, g, R) ==
  IF g > Len(groups) \/ R.threw THEN R
  ELSE SvcGroups(groups, g + 1, SvcGroup(groups[g], 0, R))

\* private rollbackOperations(operations), body of the loop
RollbackOp(U, op) ==
  IF op.type \in {"move", "delete"}
  THEN IF op.to # NoPath
       THEN LET r == RenameCall(U.W, op.to, op.from, FALSE)
            IN IF r.ok THEN [U EXCEPT !.W = r.W, !.restored = @ + 1] ELSE U
       ELSE U
  ELSE IF op.type = "create_dir"
  THEN LET r == RmdirCall(U.W, op.from)
       IN IF r.ok THEN [U EXCEPT !.W = r.W, !.removed = @ \cup {op.from}] ELSE U
  ELSE U

RECURSIVE RollbackLoop(_, _, _)
RollbackLoop(ops, i, U) ==
  IF i > Len(ops) THEN U
  ELSE RollbackLoop(ops, i + 1,
                    [RollbackOp(U, ops[i]) EXCEPT !.attempted = Append(@, ops[i])])

rollbackOperations(W, operations) ==
  RollbackLoop(Reverse(operations), 1,
               [W |-> W, restored |-> 0, removed |-> {}, attempted |-> <<>>])

\* the try block of FileService.executeOrganize
SvcRunExecute(W, p) ==
  LET R1 == SvcCreateDirs(SelectedCategories(p.files, 1, <<>>), 1, NewRun(W))
      R2 == SvcMoveFiles(p.files, 1, R1)
  IN SvcGroups(p.duplicates, 1, R2)

\* generateId() gives every run its own identifier; undefined is NoId
IdOf(run) == <<run>>
NoId == <<>>
MissingId == IdOf(MaxRuns + 1)

\* the newest log is dropped when the history is full
PushLog_DropNewest(h, entry) ==
  LET g == Append(h, entry)
  IN IF Len(g) > maxHistorySize THEN SubSeq(g, 1, Len(g) - 1) ELSE g

\* this.history.push(entry); if (this.history.length > this.maxHistorySize)
\* this.history.shift()
PushLog(h, entry) ==
  LET g == Append(h, entry)
  IN IF Len(g) > maxHistorySize THEN Tail(g) ELSE g

\* FileService.executeOrganize(plan)
SvcExecute(p) ==
  /\ \E R \in {SvcRunExecute(World, p)} :
     \E B \in {IF R.threw THEN rollbackOperations(R.W, R.operations)
                          ELSE [W |-> R.W, restored |-> 0, removed |-> {},
                                attempted |-> <<>>]} :
        /\ files' = B.W.files
        /\ dirs' = B.W.dirs
        /\ backups' = B.W.backups
        /\ history' =
             IF R.threw THEN history
             ELSE PushLog(history, [id |-> IdOf(runs + 1), operations |-> R.operations])
        /\ snaps' =
             IF R.threw THEN snaps
             ELSE PushLog(snaps, Snapshot(World))
        /\ last' = [NoObs EXCEPT !.kind = "execute", !.success = ~R.threw,
                                 !.pre = Snapshot(World), !.post = Snapshot(B.W),
                                 !.operations = R.operations, !.moves = R.moves,
                                 !.createdDirs = R.createdDirs, !.removed = B.removed,
                                 !.stackBefore = history]
  /\ runs' = runs + 1

SvcExecuteOrganize ==
  /\ engine = "svc"
  /\ runs < MaxRuns
  /\ SvcExecute(plan)
  /\ UNCHANGED <<engine, plan, fault, undoStack, step, uiPlan, reqs, child>>

\* find() ignores the identifier: the newest log is taken
IndexOfId_Newest(h, id) ==
  IF \E i \in DOMAIN h : h[i].id = id THEN Len(h) ELSE 0

\* this.history.find(h => h.id === historyId) and, after the rollback,
\* this.history.findIndex(h => h.id === historyId): the first log with the
\* identifier, 0 for undefined and -1
IndexOfId(h, id) ==
  IF \E i \in DOMAIN h : h[i].id = id
  THEN CHOOSE i \in DOMAIN h : h[i].id = id /\ \A j \in 1..(i - 1) : h[j].id # id
  ELSE 0

\* splice at the wrong end: the oldest log is dropped
RemoveAt_First(s, i) == Tail(s)

RemoveAt(s, i) == [k \in 1..(Len(s) - 1) |-> IF k < i THEN s[k] ELSE s[k + 1]]

\* FileService.undoOrganize(historyId?)
SvcUndoOrganize(historyId) ==
  /\ engine \in {"svc", "hist"}
  /\ last.kind # "undo-empty"
  /\ \E idx \in {IF historyId # NoId THEN IndexOfId(history, historyId)
                                      ELSE Len(history)} :
       IF idx = 0
       THEN /\ last' = [NoObs EXCEPT !.kind = "undo-empty", !.success = FALSE]
            /\ UNCHANGED <<files, dirs, backups, history, snaps>>
       ELSE \E U \in {rollbackOperations(World, history[idx].operations)} :
            /\ history' = RemoveAt(history, idx)
            /\ snaps' = RemoveAt(snaps, idx)
            /\ files' = U.W.files
            /\ dirs' = U.W.dirs
            /\ backups' = U.W.backups
            /\ last' = [NoObs EXCEPT !.kind = "undo",
                                     !.immediate = (last.kind = "execute" /\ last.success
                                                    /\ idx = Len(history)),
                                     !.pre = snaps[idx],
                                     !.post = Snapshot(U.W),
                                     !.operations = history[idx].operations,
                                     !.removed = U.removed,
                                     !.restored = U.restored,
                                     !.attempts = U.attempted,
                                     !.stackBefore = history]
  /\ UNCHANGED <<engine, plan, fault, runs, undoStack, step, uiPlan, reqs, child>>

----------------------------------------------------------------------------
(* The inputs of the engine specification *)

NewNames == {NameOf(1), NameOf(4)}

\* the category the analysis gave each scanned file
CatOf(p) == IF p = P3 THEN "Document" ELSE "Image"

PlanFile(p, n, mv, rn) ==
  [path |-> p, category |-> CatOf(p), newName |-> n, needsMove |-> mv, needsRename |-> rn]

\* what a plan can say about one file; newName is the file's own name unless
\* it is to be renamed
PlanFilesFor(p) ==
  {PlanFile(p, basename(p), TRUE, FALSE), PlanFile(p, NameOf(4), TRUE, TRUE)}
    \cup {PlanFile(p, n, FALSE, TRUE) : n \in NewNames}

ScanOrder == <<P1, P2, P3>>

\* plan.files keeps the order of the scan
RECURSIVE PlanFileSeqs(_)
PlanFileSeqs(i) ==
  IF i > Len(ScanOrder) THEN {<<>>}
  ELSE LET rest == PlanFileSeqs(i + 1)
       IN rest \cup {<<f>> \o r : f \in PlanFilesFor(ScanOrder[i]), r \in rest}

IpcPlans ==
  {[categories |-> cs, files |-> fs, duplicatesToDelete |-> ds] :
     cs \in {<<>>, <<"Image">>, <<"Image", "Document">>},
     fs \in {s \in PlanFileSeqs(1) : Len(s) <= MaxPlanFiles},
     ds \in {<<>>, <<P3>>, <<P1, P3>>}}

Faults ==
  {NoFault}
    \cup {[call |-> "rename", at |-> p] : p \in {P1, P2}}
    \cup {[call |-> c, at |-> P3] : c \in {"copy", "unlink"}}
    \cup {[call |-> "mkdir", at |-> d] :
            d \in {DirPath("Image"), DirPath("Document"), BackupDir(1), BackupDir(2)}}

\* contents 1 and 1 make P1 and P3 identical files
InitialWorlds ==
  {[files |-> (P1 :> 1) @@ (P2 :> 2) @@ (P3 :> 1) @@ extra, dirs |-> ds, backups |-> <<>>] :
     ds \in {{}, {"Image"}},
     extra \in {<<>>}}
    \cup {[files |-> (P1 :> 1) @@ (P2 :> 2) @@ (P3 :> 1) @@ (Join("Image", NameOf(4)) :> 3),
           dirs |-> {"Image"}, backups |-> <<>>]}

SvcFile(p, n, sel) ==
  [path |-> p, newName |-> n, category |-> CatOf(p), selected |-> sel]

SvcFilesFor(p) ==
  {SvcFile(p, basename(p), FALSE)}
    \cup {SvcFile(p, n, TRUE) : n \in {basename(p), NameOf(4)}}

RECURSIVE SvcFileSeqs(_)
SvcFileSeqs(i) ==
  IF i > Len(ScanOrder) THEN {<<>>}
  ELSE LET rest == SvcFileSeqs(i + 1)
       IN rest \cup {<<f>> \o r : f \in SvcFilesFor(ScanOrder[i]), r \in rest}

SvcPlans ==
  {[files |-> fs, duplicates |-> ds] :
     fs \in {s \in SvcFileSeqs(1) : Len(s) <= MaxPlanFiles},
     ds \in {<<>>, <<[files |-> <<P1, P3>>, keepIndex |-> 0]>>,
                   <<[files |-> <<P1, P3>>, keepIndex |-> 1]>>}}

SvcFaults ==
  {NoFault}
    \cup {[call |-> "rename", at |-> p] : p \in {P1, P2}}
    \cup {[call |-> "mkdir", at |-> DirPath("Image")]}

InitEngine ==
  /\ \/ engine = "ipc" /\ plan \in IpcPlans /\ fault \in Faults
     \/ engine = "svc" /\ plan \in SvcPlans /\ fault \in SvcFaults
  /\ \E W \in InitialWorlds :
       /\ files = W.files
       /\ dirs = W.dirs
       /\ backups = W.backups
  /\ undoStack = <<>>
  /\ history = <<>>
  /\ snaps = <<>>
  /\ runs = 0
  /\ last = NoObs
  /\ step = "none"
  /\ uiPlan = NoPlan
  /\ reqs = <<>>
  /\ child = NoChild

NextEngine ==
  \/ ExecuteOrganize
  \/ UndoOrganize
  \/ UserChange
  \/ SvcExecuteOrganize
  \/ \E historyId \in {NoId, MissingId} \cup {history[i].id : i \in DOMAIN history} :
       SvcUndoOrganize(historyId)

SpecEngine == InitEngine /\ [][NextEngine]_vars

----------------------------------------------------------------------------
(* FileService with a plan of its own for every run: each run moves one or  *)
(* two of the files that are still in the folder, so that the history holds *)
(* several logs that differ; any of them is undone by its identifier.       *)

MaxHistRuns == 3

\* an identifier generateId() has not given out
UnknownId == IdOf(0)

HistPlans ==
  {[files |-> fs, duplicates |-> <<>>] :
     fs \in {<<SvcFile(p, basename(p), TRUE)>> : p \in {P1, P2, P3}}
             \cup {<<SvcFile(P1, basename(P1), TRUE), SvcFile(P3, NameOf(4), TRUE)>>}}

\* FileService.executeOrganize(plan) with a plan whose files are in the folder
HistExecuteOrganize ==
  /\ engine = "hist"
  /\ runs < MaxHistRuns
  /\ \E p \in HistPlans :
       /\ \A i \in DOMAIN p.files : p.files[i].path \in DOMAIN files
       /\ plan' = p
       /\ SvcExecute(p)
  /\ UNCHANGED <<engine, fault, undoStack, step, uiPlan, reqs, child>>

\* FileService.undoOrganize(historyId?) without an identifier (undefined, or
\* the empty string, which the test `historyId ?` takes for none), with the
\* identifier of a log, with an identifier no log has
HistUndoOrganize ==
  \E historyId \in {NoId, UnknownId} \cup {history[i].id : i \in DOMAIN history} :
    SvcUndoOrganize(historyId)

InitHist ==
  /\ engine = "hist"
  /\ plan = [files |-> <<>>, duplicates |-> <<>>]
  /\ fault = NoFault
  /\ files = (P1 :> 1) @@ (P2 :> 2) @@ (P3 :> 1)
  /\ dirs = {}
  /\ backups = <<>>
  /\ undoStack = <<>>
  /\ history = <<>>
  /\ snaps = <<>>
  /\ runs = 0
  /\ last = NoObs
  /\ step = "none"
  /\ uiPlan = NoPlan
  /\ reqs = <<>>
  /\ child = NoChild

NextHist == HistExecuteOrganize \/ HistUndoOrganize

SpecHist == InitHist /\ [][NextHist]_vars

----------------------------------------------------------------------------
(* Long runs of either engine: many execute and undo calls over plans that  *)
(* leave the folder as it is or move one file, so that the stack of logs    *)
(* grows past FileService's maxHistorySize.                                 *)

MaxLogRuns == 12

NoIpcPlan == [categories |-> <<>>, files |-> <<>>, duplicatesToDelete |-> <<>>]
NoSvcPlan == [files |-> <<>>, duplicates |-> <<>>]

LogPlans(e) ==
  IF e = "ipc"
  THEN {NoIpcPlan,
        [NoIpcPlan EXCEPT !.categories = <<"Image">>,
                          !.files = <<PlanFile(P1, basename(P1), TRUE, FALSE)>>]}
  ELSE {NoSvcPlan,
        [NoSvcPlan EXCEPT !.files = <<SvcFile(P1, basename(P1), TRUE)>>]}

InitLog ==
  /\ engine \in {"ipc", "svc"}
  /\ plan \in LogPlans(engine)
  /\ fault = NoFault
  /\ files = (P1 :> 1) @@ (P2 :> 2) @@ (P3 :> 1)
  /\ dirs = {}
  /\ backups = <<>>
  /\ undoStack = <<>>
  /\ history = <<>>
  /\ snaps = <<>>
  /\ runs = 0
  /\ last = NoObs
  /\ step = "none"
  /\ uiPlan = NoPlan
  /\ reqs = <<>>
  /\ child = NoChild

LogExecuteOrganize ==
  /\ engine = "ipc"
  /\ runs < MaxLogRuns
  /\ FsExecuteOrganize(plan)
  /\ UNCHANGED <<engine, plan, fault, history, step, uiPlan, reqs, child>>

LogSvcExecuteOrganize ==
  /\ engine = "svc"
  /\ runs < MaxLogRuns
  /\ SvcExecute(plan)
  /\ UNCHANGED <<engine, plan, fault, undoStack, step, uiPlan, reqs, child>>

NextLog ==
  \/ LogExecuteOrganize
  \/ UndoOrganize
  \/ LogSvcExecuteOrganize
  \/ SvcUndoOrganize(NoId)

SpecLog == InitLog /\ [][NextLog]_vars

----------------------------------------------------------------------------
(* The desktop application: scan, analysis and duplicate detection in       *)
(* electron/main.ts, plan assembly in App and generateOrganizePlan.         *)
(* A folder holds files named by the catalog below and sub-directories;     *)
(* the category directories a run creates are sub-directories too.          *)

Name(stem, ext) == [base |-> <<stem>>, ext |-> ext]

\* fs.promises.readdir order of the file names a folder can hold
FileOrder ==
  <<Name("IMG_20230101_120000", ".jpg"), Name("app", ".lnk"), Name("beach", ".jpg"),
    Name("city", ".jpg"), Name("data", ".xyz"), Name("invoice", ".pdf"),
    Name("link", ".jpg"), Name("tree", ".jpg")>>

\* stats.isSymbolicLink(): link.jpg is a symbolic link to a file elsewhere;
\* what is recorded for its path is what reading through the link gives
IsSymbolicLink(n) == n.base[1] = "link"

\* and of the directory names
DirOrder ==
  <<"stuff", "Document", "Folder", "Image", "Invoice", "Other", "Shortcut">>

Range(s) == {s[i] : i \in DOMAIN s}

\* stats.size of a file, a function of what it holds; an empty file has size 0
SizeOf(content) ==
  IF content = 0 THEN 0 ELSE IF content <= 3 THEN 5 ELSE IF content <= 6 THEN 6 ELSE 7

\* lstat of a symbolic link: stats.size is the length of the target's path
LinkSize == SizeOf(4)

\* hash: undefined; modifiedTime: undefined
Undefined == <<>>

\* stats.mtime.toISOString(): the day the files of the folder were last
\* written
ModifiedTime == <<"2", "0", "2", "4", "-", "0", "1", "-", "0", "5">>

\* fs:scanFolder: one entry per directory entry (no catalog name starts with
\* '.' or '$'), files.push({name, path, size, extension, isDirectory, ...});
\* the Dirent of a symbolic link is not a directory
scanFolder(W) ==
  LET fileEntry(n) ==
        [name |-> n, path |-> Join(".", n),
         size |-> IF IsSymbolicLink(n) THEN LinkSize ELSE SizeOf(W.files[Join(".", n)]),
         extension |-> n.ext, isDirectory |-> FALSE, isSymlink |-> IsSymbolicLink(n),
         modifiedTime |-> ModifiedTime]
      dirEntry(d) ==
        [name |-> Name(d, ""), path |-> Join(".", Name(d, "")), size |-> 0,
         extension |-> "", isDirectory |-> TRUE, isSymlink |-> FALSE,
         modifiedTime |-> ModifiedTime]
      fs == SelectSeq(FileOrder, LAMBDA n : Join(".", n) \in DOMAIN W.files)
      ds == SelectSeq(DirOrder, LAMBDA d : d \in W.dirs)
  IN [i \in 1..Len(fs) |-> fileEntry(fs[i])] \o [i \in 1..Len(ds) |-> dirEntry(ds[i])]

isShortcutOrLink(fileName) == fileName.ext \in {".lnk", ".desktop", ".url", ".webloc"}

\* The characters of a name. A file name is a sequence of characters; a stem
\* of the catalog is written as one word and Spell gives its characters. A
\* word of Chinese characters (a category label, a keyword) is one element
\* of the sequence, written in English: it is in no ASCII character class
Digits == {"0", "1", "2", "3", "4", "5", "6", "7", "8", "9"}
LowerLetters ==
  {"a", "b", "c", "d", "e", "f", "g", "h", "i", "j", "k", "l", "m", "n", "o", "p", "q", "r", "s", "t", "u", "v", "w", "x", "y", "z"}
UpperLetters ==
  {"A", "B", "C", "D", "E", "F", "G", "H", "I", "J", "K", "L", "M", "N", "O", "P", "Q", "R", "S", "T", "U", "V", "W", "X", "Y", "Z"}
Letters == LowerLetters \cup UpperLetters
Sep == {"-", "_"}
Ascii == Digits \cup Letters \cup Sep \cup {" ", "(", ")", ".", "+"}

Spell(stem) ==
  CASE stem = "IMG_20230101_120000" -> <<"I", "M", "G", "_", "2", "0", "2", "3", "0", "1", "0", "1", "_", "1", "2", "0", "0", "0", "0">>
    [] stem = "20230101_Image" -> <<"2", "0", "2", "3", "0", "1", "0", "1", "_">> \o <<"Image">>
    [] stem = "app" -> <<"a", "p", "p">>
    [] stem = "beach" -> <<"b", "e", "a", "c", "h">>
    [] stem = "city" -> <<"c", "i", "t", "y">>
    [] stem = "data" -> <<"d", "a", "t", "a">>
    [] stem = "invoice" -> <<"i", "n", "v", "o", "i", "c", "e">>
    [] stem = "link" -> <<"l", "i", "n", "k">>
    [] stem = "tree" -> <<"t", "r", "e", "e">>
    [] stem = "stuff" -> <<"s", "t", "u", "f", "f">>
    [] OTHER -> <<stem>>

RECURSIVE Concat(_)
Concat(ss) == IF ss = <<>> THEN <<>> ELSE Head(ss) \o Concat(Tail(ss))

\* path.basename(fileName, ext) as characters
Chars(fileName) == Concat([i \in DOMAIN fileName.base |-> Spell(fileName.base[i])])

\* a synthesised name that is a stem of the catalog is written as that stem
Unspell(name) == IF name = Spell("20230101_Image") THEN <<"20230101_Image">> ELSE name

\* The one value of a set of one value. The operators on strings below take
\* their string s as the member t of {s}, so that the argument is worked out
\* once however often the body looks at it
Once(S) == CHOOSE r \in S : TRUE

\* String.prototype.toLowerCase, character by character
toLowerCase(s) ==
  LET upper == <<"A", "B", "C", "D", "E", "F", "G", "H", "I", "J", "K", "L", "M", "N", "O", "P", "Q", "R", "S", "T", "U", "V", "W", "X", "Y", "Z">>
      lower == <<"a", "b", "c", "d", "e", "f", "g", "h", "i", "j", "k", "l", "m", "n", "o", "p", "q", "r", "s", "t", "u", "v", "w", "x", "y", "z">>
      lowerChar(c) ==
        IF c \in UpperLetters THEN lower[CHOOSE k \in DOMAIN upper : upper[k] = c] ELSE c
  IN Once({[i \in DOMAIN t |-> lowerChar(t[i])] : t \in {s}})

\* String.prototype.includes
Contains(s, w) ==
  \E t \in {s} : \E p \in 0..(Len(t) - Len(w)) : SubSeq(t, p + 1, p + Len(w)) = w

\* Regular expressions, as the positions a match can end at when it starts at
\* one of the positions P (a position is the number of characters consumed):
\* a literal word, n characters of a class, lo or more characters of a class,
\* an optional character of a class
Lit(s, P, w) ==
  UNION {{p + Len(w) : p \in {q \in P : q + Len(w) <= Len(t) /\ SubSeq(t, q + 1, q + Len(w)) = w}}
           : t \in {s}}

RepN(s, P, C, n) ==
  UNION {{p + n : p \in {q \in P : q + n <= Len(t) /\ \A i \in (q + 1)..(q + n) : t[i] \in C}}
           : t \in {s}}

Rep(s, P, C, lo) ==
  UNION {UNION {{q \in (p + lo)..Len(t) : \A i \in (p + 1)..q : t[i] \in C} : p \in P}
           : t \in {s}}

Opt(s, P, C) == UNION {{p} \cup RepN(s, {p}, C, 1) : p \in P}

\* \d{8}[-_]?\d{6}
Stamp(s, P) == RepN(s, Opt(s, RepN(s, P, Digits, 8), Sep), Digits, 6)

\* messyPatterns.some(pattern => pattern.test(name)). The patterns with the
\* flag i are matched on the lower-cased name; the others have no letter. The
\* patterns that begin with a Chinese word are left out: no name of the model
\* begins with one
messyPatterns(name) ==
  \E s \in {toLowerCase(name)} :
  LET Z == {0}
      Hex == Digits \cup {"a", "b", "c", "d", "e", "f"}
      Alnum == Digits \cup LowerLetters
      full(P) == Len(s) \in P
      some(P) == P # {}
  IN \/ full(Rep(s, Z, Hex, 8))
     \/ full(Rep(s, Z, Alnum, 24))
     \/ full(Rep(s, Z, Hex \cup {"-"}, 32))
     \/ some(Stamp(s, Lit(s, Z, <<"i", "m", "g", "_">>)))
     \/ some(Rep(s, Opt(s, Lit(s, Z, <<"d", "s", "c">>), {"_"}), Digits, 4))
     \/ some(Rep(s, Opt(s, Lit(s, Z, <<"d", "c", "i", "m">>), {"_"}), Digits, 1))
     \/ some(Stamp(s, Opt(s, Lit(s, Z, <<"p">>), {"_"})))
     \/ some(Stamp(s, Lit(s, Z, <<"v", "i", "d", "_">>)))
     \/ some(Rep(s, Opt(s, Lit(s, Z, <<"p", "h", "o", "t", "o">>), Sep), Digits, 1))
     \/ some(Rep(s, Opt(s, Lit(s, Z, <<"v", "i", "d", "e", "o">>), Sep), Digits, 1))
     \/ some(Rep(s, Opt(s, RepN(s, Lit(s, Z, <<"p", "x", "l", "_">>), Digits, 8), Sep), Digits, 1))
     \/ some(Rep(s, Lit(s, Z, <<"s", "c", "r", "e", "e", "n", "s", "h", "o", "t", "_">>), Digits, 1))
     \/ some(Rep(s, Lit(s, Z, <<"s", "n", "i", "p", "a", "s", "t", "e", "_">>), Digits, 1))
     \/ some(Rep(s, Opt(s, Lit(s, Opt(s, Lit(s, Z, <<"s", "c", "r", "e", "e", "n">>), {" "}), <<"s", "h", "o", "t">>), {" "}),
                 Digits, 1))
     \/ some(Rep(s, Opt(s, Lit(s, Z, <<"w", "e", "c", "h", "a", "t">>), Sep), Digits, 1))
     \/ full(Rep(s, Z, Digits, 13))
     \/ full(RepN(s, Z, Digits, 10))
     \/ full(Stamp(s, Z))
     \/ full(Rep(s, Opt(s, Lit(s, Z, <<"t", "m", "p">>), Sep), Alnum, 1))
     \/ full(Rep(s, Opt(s, Lit(s, Z, <<"t", "e", "m", "p">>), Sep), Alnum, 1))
     \/ full(Opt(s, Rep(s, Opt(s, Opt(s, Lit(s, Z, <<"d", "o", "w", "n", "l", "o", "a", "d">>), Sep), {"("}), Digits, 0),
                 {")"}))
     \/ full(Rep(s, Opt(s, Lit(s, Z, <<"u", "n", "t", "i", "t", "l", "e", "d">>), Sep), Digits, 0))
     \/ full(Rep(s, Opt(s, Lit(s, Z, <<"u", "n", "n", "a", "m", "e", "d">>), Sep), Digits, 0))
     \/ some(Lit(s, Z, <<"c", "o", "p", "y">>))
     \/ full(Lit(s, Rep(s, Lit(s, Z, <<"(">>), Digits, 1), <<")">>))
     \/ some(RepN(s, Lit(s, RepN(s, Lit(s, RepN(s, Z, Alnum, 8), <<"-">>), Alnum, 4),
                         <<"-">>), Alnum, 4))

\* no pattern is looked at for a name shorter than four characters
isMessyFileName_AnyLength(fileName) == messyPatterns(Chars(fileName))

isMessyFileName(fileName) ==
  \E name \in {Chars(fileName)} : Len(name) >= 4 /\ messyPatterns(name)

isDocumentFile(ext) ==
  ext \in {".doc", ".docx", ".pdf", ".txt", ".rtf", ".odt", ".md", ".xls", ".xlsx",
           ".csv", ".ppt", ".pptx", ".key"}

\* year, padded month and padded day of a Date, joined
DateOf(d) == SelectSeq(d, LAMBDA c : c \in Digits)

\* new Date(): the day of the analysis, later than the day the files were
\* last written
CurrentDate == <<"2", "0", "2", "4", "-", "0", "3", "-", "0", "9">>

\* file.modifiedTime of an entry of the request; undefined when the caller
\* did not send the property
ModifiedTimeOf(file) ==
  IF "modifiedTime" \in DOMAIN file THEN file.modifiedTime ELSE Undefined

\* the leftmost match of /(\d{4})[-_]?(\d{2})[-_]?(\d{2})/, else of
\* /(\d{2})[-_](\d{2})[-_](\d{4})/, else the day of modifiedTime when it is
\* given, else the day of the call
extractDateFromFile(fileName, modifiedTime) ==
  Once({
  LET sepAt(p) == p + 1 <= Len(name) /\ name[p + 1] \in Sep
      digitsAt(p, n) == RepN(name, {p}, Digits, n) # {}
      skip(p) == IF sepAt(p) THEN p + 1 ELSE p
      ymd(p) == /\ digitsAt(p, 4)
                /\ digitsAt(skip(p + 4), 2)
                /\ digitsAt(skip(skip(p + 4) + 2), 2)
      dmy(p) == /\ digitsAt(p, 2) /\ sepAt(p + 2) /\ digitsAt(p + 3, 2)
                /\ sepAt(p + 5) /\ digitsAt(p + 6, 4)
      first(S) == CHOOSE p \in S : \A q \in S : p <= q
      Y == {p \in 0..Len(name) : ymd(p)}
      M == {p \in 0..Len(name) : dmy(p)}
  IN IF Y # {}
     THEN LET p == first(Y)
              a == skip(p + 4)
              b == skip(a + 2)
          IN SubSeq(name, p + 1, p + 4) \o SubSeq(name, a + 1, a + 2)
               \o SubSeq(name, b + 1, b + 2)
     ELSE IF M # {}
     THEN LET p == first(M)
          IN SubSeq(name, p + 7, p + 10) \o SubSeq(name, p + 1, p + 2)
               \o SubSeq(name, p + 4, p + 5)
     ELSE IF modifiedTime # Undefined THEN DateOf(modifiedTime)
     ELSE DateOf(CurrentDate)
  : name \in {Chars(fileName)}})

\* name.replace(/^.../, ''): the longest match at the start is removed
StripPrefix(s, P) ==
  Once({IF Q = {} THEN s ELSE SubSeq(s, (CHOOSE p \in Q : \A q \in Q : q <= p) + 1, Len(s))
          : Q \in {P}})

MaxCleanLength == 30

\* the camera prefix, then the time stamp, then the characters that are
\* neither Chinese nor ASCII letters, digits, '-' or '_' are removed, and the
\* rest is cut to 30 characters
cleanFileName(fileName) ==
  LET Z == {0}
      prefix(low) ==
        Lit(low, Z, <<"i", "m", "g", "_">>) \cup Opt(low, Lit(low, Z, <<"d", "s", "c">>), {"_"})
          \cup Lit(low, Z, <<"v", "i", "d", "_">>) \cup Lit(low, Z, <<"s", "c", "r", "e", "e", "n", "s", "h", "o", "t", "_">>)
          \cup Lit(low, Z, <<"s", "n", "i", "p", "a", "s", "t", "e", "_">>) \cup Lit(low, Z, <<"p", "_">>)
          \cup Lit(low, Z, <<"d", "c", "i", "m", "_">>)
      step1(name) == StripPrefix(name, UNION {prefix(low) : low \in {toLowerCase(name)}})
      step2(n1) == StripPrefix(n1, Opt(n1, Stamp(n1, Z), Sep))
      step3(n2) == StripPrefix(n2, Opt(n2, Rep(n2, Z, Digits, 13), Sep))
      step4(n3) == SelectSeq(n3, LAMBDA c : c \notin Ascii \/ c \in Letters \cup Digits \cup Sep)
      cut(n4) == IF Len(n4) > MaxCleanLength THEN SubSeq(n4, 1, MaxCleanLength) ELSE n4
  IN Once({cut(n4) : n4 \in {step4(n3) : n3 \in {step3(n2) : n2 \in {step2(n1) :
             n1 \in {step1(name) : name \in {Chars(fileName)}}}}}})

extCategoryMap(ext) ==
  CASE ext \in {".jpg", ".jpeg", ".png", ".gif"} -> "Image"
    [] ext \in {".pdf", ".doc", ".docx", ".txt"} -> "Document"
    [] ext \in {".lnk", ".desktop", ".url", ".webloc"} -> "Shortcut"
    [] OTHER -> "Other"

\* keywordRules, in the order of the table
keywordRules ==
  <<[keywords |-> {<<"Invoice">>, <<"i", "n", "v", "o", "i", "c", "e">>, <<"r", "e", "c", "e", "i", "p", "t">>, <<"ShouJu">>},
     category |-> "Invoice"],
    [keywords |-> {<<"Contract">>, <<"c", "o", "n", "t", "r", "a", "c", "t">>, <<"XieYi">>, <<"a", "g", "r", "e", "e", "m", "e", "n", "t">>},
     category |-> "Contract"],
    [keywords |-> {<<"Screenshot">>, <<"s", "c", "r", "e", "e", "n", "s", "h", "o", "t">>, <<"s", "n", "i", "p">>, <<"c", "a", "p", "t", "u", "r", "e">>},
     category |-> "Screenshot"],
    [keywords |-> {<<"Manual">>, <<"m", "a", "n", "u", "a", "l">>, <<"g", "u", "i", "d", "e">>, <<"ZhiNan">>, <<"JiaoCheng">>},
     category |-> "Manual"],
    [keywords |-> {<<"JianLi">>, <<"r", "e", "s", "u", "m", "e">>, <<"c", "v">>}, category |-> "Document"],
    [keywords |-> {<<"BaoGao">>, <<"r", "e", "p", "o", "r", "t">>}, category |-> "Document"]>>

\* the rows of keywordRules with a keyword the lower-cased name contains
MatchingRules(lowerName) ==
  {r \in DOMAIN keywordRules : \E k \in keywordRules[r].keywords : Contains(lowerName, k)}

\* for (const rule of keywordRules) ... return rule.category: the first row
keywordCategory(lowerName) ==
  Once({IF R = {} THEN "" ELSE keywordRules[CHOOSE r \in R : \A q \in R : r <= q].category
          : R \in {MatchingRules(lowerName)}})

\* folderKeywordRules: the directories named after the categories 图片 and
\* 文档 contain a keyword of their own rule
folderKeywordCategory(lowerName) ==
  CASE Contains(lowerName, <<"Image">>) -> "Image"
    [] Contains(lowerName, <<"Document">>) -> "Document"
    [] OTHER -> ""

\* an image whose name speaks of a screen is a screenshot
IsScreenImage(lowerName, ext) ==
  /\ ext \in {".jpg", ".jpeg", ".png", ".gif", ".webp"}
  /\ \/ Contains(lowerName, <<"s", "c", "r", "e", "e", "n", "s", "h", "o", "t">>)
     \/ Contains(lowerName, <<"Screenshot">>)
     \/ Contains(lowerName, <<"s", "c", "r", "e", "e", "n">>)
     \/ Lit(lowerName, {0}, <<"s", "n", "i", "p">>) # {}

\* the extension table first, the keyword table only for what it leaves
classifyFile_ExtFirst(fileName, isDirectory, isSymlink) ==
  IF extCategoryMap(fileName.ext) # "Other" THEN extCategoryMap(fileName.ext)
  ELSE Once({IF byKeyword # "" THEN byKeyword ELSE "Other"
               : byKeyword \in {keywordCategory(toLowerCase(Chars(fileName)))}})

classifyFile(fileName, isDirectory, isSymlink) ==
  LET ext == fileName.ext
      byName(lowerName) ==
        IF isDirectory
        THEN IF folderKeywordCategory(lowerName) # ""
             THEN folderKeywordCategory(lowerName) ELSE "Folder"
        ELSE IF isShortcutOrLink(fileName) THEN "Shortcut"
        ELSE Once({IF byKeyword # "" THEN byKeyword
                   ELSE IF IsScreenImage(lowerName, ext) THEN "Screenshot"
                   ELSE extCategoryMap(ext)
                     : byKeyword \in {keywordCategory(lowerName)}})
  IN IF isSymlink THEN "Shortcut"
     ELSE Once({byName(lowerName) : lowerName \in {toLowerCase(Chars(fileName))}})

FolderThreshold == 3

currentUser == <<"u", "s", "e", "r">>

\* `${dateStr}_${label}${ext}`
DatedName(dateStr, label, ext) ==
  [base |-> Unspell(dateStr \o <<"_">> \o label), ext |-> ext]

\* pass 1 of ai:analyzeFiles: the category classifyFile gives entry i
\* (what the functions of a name give for a name of the catalog is computed
\* once and looked up)
CatalogNames == Range(FileOrder) \cup {Name(d, "") : d \in Range(DirOrder)}

Classified ==
  [n \in CatalogNames |->
     [isDirectory \in BOOLEAN |->
        [isSymlink \in BOOLEAN |-> classifyFile(n, isDirectory, isSymlink)]]]

Naming ==
  [n \in CatalogNames |->
     [messy |-> isMessyFileName(n),
      dateStr |-> [t \in {Undefined, ModifiedTime} |-> extractDateFromFile(n, t)],
      cleanName |-> cleanFileName(n)]]

LocalCategory(fs, i) ==
  LET isDirectory == Flag(fs[i], "isDirectory")
      isSymlink == Flag(fs[i], "isSymlink")
  IN IF fs[i].name \in CatalogNames
     THEN Classified[fs[i].name][isDirectory][isSymlink]
     ELSE classifyFile(fs[i].name, isDirectory, isSymlink)

\* categoryCount[category]: directories are not counted
categoryCount(fs, c) ==
  Cardinality({i \in DOMAIN fs : ~Flag(fs[i], "isDirectory") /\ LocalCategory(fs, i) = c})

\* a category needs more files than the threshold
categoriesNeedingFolders_Above(fs) ==
  {c \in {LocalCategory(fs, i) : i \in DOMAIN fs} :
     categoryCount(fs, c) > FolderThreshold /\ c \notin {"Shortcut", "Other"}}

\* the set categoriesNeedingFolders of ai:analyzeFiles
categoriesNeedingFolders(fs) ==
  {c \in {LocalCategory(fs, i) : i \in DOMAIN fs} :
     categoryCount(fs, c) >= FolderThreshold /\ c \notin {"Shortcut", "Other"}}

\* ai:analyzeFiles up to the call of the opencode oracle: results
analyzeFiles(fs) ==
  LET isDir(i) == Flag(fs[i], "isDirectory")
      isSymlink(i) == Flag(fs[i], "isSymlink")
      category(i) == LocalCategory(fs, i)
      isShortcut(i) == isShortcutOrLink(fs[i].name) \/ isSymlink(i)
      known(i) == fs[i].name \in CatalogNames
      needsRename(i) == /\ ~isDir(i) /\ ~isShortcut(i)
                        /\ IF known(i) THEN Naming[fs[i].name].messy
                           ELSE isMessyFileName(fs[i].name)
      suggestedName(i) ==
        IF ~needsRename(i) THEN fs[i].name
        ELSE LET dateStr == IF known(i)
                            THEN Naming[fs[i].name].dateStr[ModifiedTimeOf(fs[i])]
                            ELSE extractDateFromFile(fs[i].name, ModifiedTimeOf(fs[i]))
                 cleanName == IF known(i) THEN Naming[fs[i].name].cleanName
                              ELSE cleanFileName(fs[i].name)
                 ext == fs[i].extension
             IN IF isDocumentFile(ext)
                THEN DatedName(dateStr,
                               currentUser \o <<"_">>
                                 \o (IF cleanName # <<>> THEN cleanName ELSE <<"Document">>),
                               ext)
                ELSE IF category(i) = "Screenshot"
                     THEN DatedName(dateStr, <<"Screenshot">>, ext)
                ELSE IF cleanName # <<>> THEN DatedName(dateStr, cleanName, ext)
                ELSE DatedName(dateStr,
                               <<IF category(i) # "Other" THEN category(i) ELSE "File">>,
                               ext)
  IN [i \in DOMAIN fs |->
        [path |-> fs[i].path, category |-> category(i),
         suggestedName |-> suggestedName(i), needsRename |-> needsRename(i),
         needsMove |-> ~isShortcut(i) /\ ~isDir(i)
                         /\ category(i) \in categoriesNeedingFolders(fs),
         isShortcut |-> isShortcut(i), confidence |-> "0.8"]]

\* the type CategoryType
CategoryType ==
  {"Contract", "Invoice", "Screenshot", "Manual", "Image", "Video", "Audio", "Document",
   "Archive", "Code", "Program", "Shortcut", "Folder", "Download", "Backup", "Other"}

\* what callOpencode gives: nothing (opencode absent, timed out, or its
\* output holds no JSON), or parsed.files, a list of {name, category, reason}
NoAnswer == <<>>

\* the categories an answer can name: one of the prompt's options, the
\* option 其他, and a word that is not among the options
AnswerCategories == {"Image", "Other", "Meme"}

\* checkOpencode at start-up: the runs of the engine are followed on a
\* machine without opencode, the scan on one that has it
isOpencodeAvailable ==
  IF engine = "call" THEN child.available ELSE engine \in {"scan", "oracle"}

\* the answers to a prompt that lists the names in `asked`
Answers(asked) ==
  {NoAnswer} \cup
  IF isOpencodeAvailable
  THEN {<<[name |-> n, category |-> c, reason |-> "reason"]>> :
          n \in asked, c \in AnswerCategories}
  ELSE {}

\* One call of opencode: how the child process ended and what it wrote to
\* stdout.  status is "unavailable" (no opencode found at start-up),
\* "timeout" (60 s without close), "exit" (closed with a code other than 0),
\* "error" (spawn failed) or "ok"; output.form is "empty", "text" (no braces
\* in it), "badjson" (braces that JSON.parse rejects), "nofiles" (JSON without
\* a files array) or "files"
Output(form, fileList) == [form |-> form, files |-> fileList]

Null == Output("null", <<>>)

Responses(asked) ==
  IF asked = {} THEN {[status |-> "unavailable", output |-> Output("empty", <<>>)]}
  ELSE {[status |-> st, output |-> out] :
          st \in {"unavailable", "timeout", "exit", "error"},
          out \in {Output("empty", <<>>)}
                    \cup {Output("files", <<[name |-> n, category |-> "Image",
                                              reason |-> "reason"]>>) : n \in asked}}
       \cup
       {[status |-> "ok", output |-> out] :
          out \in {Output(f, <<>>) : f \in {"empty", "text", "badjson", "nofiles"}}
                    \cup {Output("files", a) : a \in Answers(asked) \ {NoAnswer}}}

\* the status of the child process is not looked at
callOpencode_AnyStatus(response) ==
  IF response.output.form = "empty" THEN Null ELSE response.output

\* callOpencode(prompt): null, or what opencode wrote
callOpencode(response) ==
  IF response.status # "ok" \/ response.output.form = "empty" THEN Null
  ELSE response.output

\* aiResponse.match, JSON.parse, parsed.files && Array.isArray(parsed.files)
ParsedFiles(aiResponse) ==
  IF aiResponse = Null \/ aiResponse.form # "files" THEN NoAnswer ELSE aiResponse.files

\* the files ai:analyzeFiles puts in the prompt; no prompt for more than 30
OracleLimit == 30

FilesToAsk(fs) ==
  LET asked == {i \in DOMAIN fs : ~Flag(fs[i], "isDirectory") /\ LocalCategory(fs, i) = "Other"}
  IN IF Cardinality(asked) <= OracleLimit THEN {fs[i].name : i \in asked} ELSE {}

\* results[resultIndex].category, .confidence and .aiReason are assigned
Merged(result, aiResult) ==
  [path |-> result.path, category |-> aiResult.category,
   suggestedName |-> result.suggestedName, needsRename |-> result.needsRename,
   needsMove |-> result.needsMove, isShortcut |-> result.isShortcut,
   confidence |-> "0.9", aiReason |-> aiResult.reason]

\* findIndex without the test r.category === '其他'
RECURSIVE mergeOracle_AnyCategory(_, _, _)
mergeOracle_AnyCategory(results, answer, k) ==
  IF k > Len(answer) THEN results
  ELSE LET hit == {i \in DOMAIN results : basename(results[i].path) = answer[k].name}
           resultIndex == IF hit = {} THEN 0 ELSE CHOOSE i \in hit : \A j \in hit : i <= j
       IN mergeOracle_AnyCategory(
            IF resultIndex > 0 /\ answer[k].category # "Other"
            THEN [results EXCEPT ![resultIndex] = Merged(@, answer[k])]
            ELSE results,
            answer, k + 1)

\* the merge of parsed.files into results, from answer k on
RECURSIVE mergeOracle(_, _, _)
mergeOracle(results, answer, k) ==
  IF k > Len(answer) THEN results
  ELSE LET hit == {i \in DOMAIN results :
                     basename(results[i].path) = answer[k].name
                       /\ results[i].category = "Other"}
           resultIndex == IF hit = {} THEN 0 ELSE CHOOSE i \in hit : \A j \in hit : i <= j
       IN mergeOracle(IF resultIndex > 0 /\ answer[k].category # "Other"
                      THEN [results EXCEPT ![resultIndex] = Merged(@, answer[k])]
                      ELSE results,
                      answer, k + 1)

\* ai:analyzeFiles: {results, categoriesNeedingFolders}
AnalyzeFilesHandler(fs, answer) ==
  [results |-> mergeOracle(analyzeFiles(fs), answer, 1),
   categoriesNeedingFolders |-> categoriesNeedingFolders(fs)]

\* map.get(key) || []; push; map.set(key, ...): groups in insertion order
RECURSIVE GroupByKey(_, _, _, _)
GroupByKey(items, keys, i, acc) ==
  IF i > Len(items) THEN acc
  ELSE LET at == {j \in DOMAIN acc : acc[j].hash = keys[i]}
       IN GroupByKey(items, keys, i + 1,
            IF at = {}
            THEN Append(acc, [hash |-> keys[i], files |-> <<items[i]>>])
            ELSE [j \in DOMAIN acc |->
                    IF j \in at THEN [acc[j] EXCEPT !.files = Append(@, items[i])]
                    ELSE acc[j]])

RECURSIVE Flatten(_, _)
Flatten(groups, g) ==
  IF g > Len(groups) THEN <<>> ELSE groups[g].files \o Flatten(groups, g + 1)

\* every file hashes alike
calculateFileHash_Const(W, filePath) == <<"md5", 0>>

\* calculateFileHash: md5 of the content, taken to be free of collisions
calculateFileHash(W, filePath) == <<"md5", W.files[filePath]>>


\* every group of the hash map is reported, a group of one file too
detectDuplicates_EmitSingles(W, fs) ==
  LET sized == SelectSeq(fs, LAMBDA f : f.size # 0)
      sizeGroups == GroupByKey(sized, [i \in DOMAIN sized |-> sized[i].size], 1, <<>>)
      hashed == SelectSeq(Flatten(SelectSeq(sizeGroups, LAMBDA g : Len(g.files) > 1), 1),
                          LAMBDA f : f.path \in DOMAIN W.files)
      groups == GroupByKey(hashed,
                           [i \in DOMAIN hashed |-> calculateFileHash(W, hashed[i].path)],
                           1, <<>>)
  IN [g \in DOMAIN groups |->
        [hash |-> groups[g].hash,
         files |-> [i \in DOMAIN groups[g].files |->
                      [path |-> groups[g].files[i].path,
                       name |-> groups[g].files[i].name,
                       size |-> groups[g].files[i].size,
                       isKeep |-> i = 1]]]]

\* fs:detectDuplicates(files)
detectDuplicates(W, fs) ==
  LET sized == SelectSeq(fs, LAMBDA f : f.size # 0)
      sizeGroups == GroupByKey(sized, [i \in DOMAIN sized |-> sized[i].size], 1, <<>>)
      hashed == SelectSeq(Flatten(SelectSeq(sizeGroups, LAMBDA g : Len(g.files) > 1), 1),
                          LAMBDA f : f.path \in DOMAIN W.files)
      hashMap == GroupByKey(hashed,
                            [i \in DOMAIN hashed |-> calculateFileHash(W, hashed[i].path)],
                            1, <<>>)
      groups == SelectSeq(hashMap, LAMBDA g : Len(g.files) > 1)
  IN [g \in DOMAIN groups |->
        [hash |-> groups[g].hash,
         files |-> [i \in DOMAIN groups[g].files |->
                      [path |-> groups[g].files[i].path,
                       name |-> groups[g].files[i].name,
                       size |-> groups[g].files[i].size,
                       isKeep |-> i = 1]]]]

\* App.convertToFileItems(scannedFiles, analysisResults)
convertToFileItems(scannedFiles, analysisResults) ==
  [index \in DOMAIN scannedFiles |->
     LET sf == scannedFiles[index]
         analysis == CHOOSE r \in Range(analysisResults) : r.path = sf.path
     IN [id |-> index, name |-> sf.name,
         newName |-> IF sf.isDirectory \/ ~analysis.needsRename
                     THEN sf.name ELSE analysis.suggestedName,
         size |-> sf.size, category |-> analysis.category, path |-> sf.path,
         hash |-> Undefined, selected |-> TRUE, isDirectory |-> sf.isDirectory,
         isSymlink |-> sf.isSymlink,
         isShortcut |-> analysis.isShortcut \/ analysis.category = "Shortcut",
         needsRename |-> analysis.needsRename, needsMove |-> analysis.needsMove]]

\* dup.files.findIndex(f => f.isKeep), a JavaScript index
FindKeepIndex(fs) ==
  IF \E i \in DOMAIN fs : fs[i].isKeep
  THEN (CHOOSE i \in DOMAIN fs : fs[i].isKeep /\ \A j \in 1..(i - 1) : ~fs[j].isKeep) - 1
  ELSE -1

\* App.convertDuplicates(electronDups)
convertDuplicates(electronDups) ==
  [g \in DOMAIN electronDups |->
     [hash |-> electronDups[g].hash,
      files |-> [i \in DOMAIN electronDups[g].files |->
                   [path |-> electronDups[g].files[i].path,
                    name |-> electronDups[g].files[i].name,
                    size |-> electronDups[g].files[i].size]],
      keepIndex |-> FindKeepIndex(electronDups[g].files)]]

RECURSIVE SumExtra(_, _)
SumExtra(groups, g) ==
  IF g > Len(groups) THEN 0 ELSE (Len(groups[g].files) - 1) + SumExtra(groups, g + 1)

RECURSIVE KeysInOrder(_, _, _)
KeysInOrder(items, i, acc) ==
  IF i > Len(items) THEN acc
  ELSE KeysInOrder(items, i + 1,
                   IF items[i].category \in Range(acc) THEN acc
                   ELSE Append(acc, items[i].category))

\* generateOrganizePlan(files); categories holds Object.keys(plan.categories)
generateOrganizePlan(fileItems) ==
  LET categories == KeysInOrder(fileItems, 1, <<>>)
      hashMap == GroupByKey(fileItems,
                            [i \in DOMAIN fileItems |->
                               IF fileItems[i].hash = Undefined THEN <<"no-hash">>
                               ELSE fileItems[i].hash],
                            1, <<>>)
      groups == SelectSeq(hashMap, LAMBDA g : Len(g.files) > 1)
      duplicates ==
        [g \in DOMAIN groups |->
           [hash |-> groups[g].hash,
            files |-> [i \in DOMAIN groups[g].files |->
                         [path |-> groups[g].files[i].path,
                          name |-> groups[g].files[i].name,
                          size |-> groups[g].files[i].size]],
            keepIndex |-> 0]]
      count(c) == Cardinality({i \in DOMAIN fileItems : fileItems[i].category = c})
  IN [files |-> fileItems,
      categories |-> categories,
      duplicates |-> duplicates,
      duplicateCount |-> SumExtra(duplicates, 1),
      categoriesNeedingFolders |->
        SelectSeq(categories,
                  LAMBDA c : count(c) >= FolderThreshold
                             /\ c \notin {"Shortcut", "Other", "Folder"}),
      edits |-> 0]

\* the emptyPlan of handleScanComplete
EmptyPlan ==
  [files |-> <<>>, categories |-> <<>>, duplicates |-> <<>>, duplicateCount |-> 0,
   categoriesNeedingFolders |-> <<>>, edits |-> 0]

\* what App sends to fs:detectDuplicates
FilesForDupCheck(scannedFiles) ==
  LET fs == SelectSeq(scannedFiles, LAMBDA f : ~f.isDirectory)
  IN [i \in DOMAIN fs |-> [path |-> fs[i].path, size |-> fs[i].size, name |-> fs[i].name]]

\* what App sends to ai:analyzeFiles
filesToAnalyze(scannedFiles) ==
  [i \in DOMAIN scannedFiles |->
     [name |-> scannedFiles[i].name, path |-> scannedFiles[i].path,
      extension |-> scannedFiles[i].extension, size |-> scannedFiles[i].size,
      isDirectory |-> scannedFiles[i].isDirectory]]

\* the plan App.handleScanComplete builds on the desktop, the oracle giving
\* `answer`
ScanPlan(W, answer) ==
  LET scannedFiles == scanFolder(W)
  IN IF Len(scannedFiles) = 0 THEN EmptyPlan
     ELSE LET results == AnalyzeFilesHandler(filesToAnalyze(scannedFiles), answer).results
              duplicates == detectDuplicates(W, FilesForDupCheck(scannedFiles))
              fileItems == convertToFileItems(scannedFiles, results)
              generatedPlan == generateOrganizePlan(fileItems)
          IN IF Len(duplicates) > 0
             THEN [generatedPlan EXCEPT !.duplicates = convertDuplicates(duplicates),
                                        !.duplicateCount = SumExtra(duplicates, 1)]
             ELSE generatedPlan

RECURSIVE DuplicatesToDelete_OneBased(_, _)
DuplicatesToDelete_OneBased(duplicates, g) ==
  IF g > Len(duplicates) THEN <<>>
  ELSE LET fs == duplicates[g].files
           idx == SelectSeq([i \in DOMAIN fs |-> i],
                            LAMBDA i : i # duplicates[g].keepIndex)
       IN [k \in DOMAIN idx |-> fs[idx[k]].path]
            \o DuplicatesToDelete_OneBased(duplicates, g + 1)

\* Executing.execute: duplicatesToDelete
RECURSIVE DuplicatesToDelete(_, _)
DuplicatesToDelete(duplicates, g) ==
  IF g > Len(duplicates) THEN <<>>
  ELSE LET fs == duplicates[g].files
           idx == SelectSeq([i \in DOMAIN fs |-> i],
                            LAMBDA i : (i - 1) # duplicates[g].keepIndex)
       IN [k \in DOMAIN idx |-> fs[idx[k]].path] \o DuplicatesToDelete(duplicates, g + 1)

\* Executing.execute: organizePlan
OrganizePlan(p) ==
  LET sel == SelectSeq(p.files, LAMBDA f : f.selected)
  IN [categories |-> p.categories,
      files |-> [i \in DOMAIN sel |->
                   [path |-> sel[i].path, category |-> sel[i].category,
                    newName |-> sel[i].newName]],
      duplicatesToDelete |-> DuplicatesToDelete(p.duplicates, 1)]

----------------------------------------------------------------------------
(* Actions of the application *)

MaxEntries == 3
MaxEdits == 2
\* the application is followed through one run less than the engines
MaxAppRuns == MaxRuns - 1

\* App.handleSelectFolder
HandleSelectFolder ==
  /\ engine \in {"app", "scan"}
  /\ step = "select"
  /\ step' = "scanning"
  /\ UNCHANGED <<engine, files, dirs, backups, undoStack, history, plan, fault, runs,
                 snaps, last, uiPlan, reqs, child>>

\* App.handleScanComplete, on the desktop
HandleScanComplete ==
  /\ engine \in {"app", "scan"}
  /\ step = "scanning"
  /\ \E answer \in Answers(FilesToAsk(scanFolder(World))) :
       uiPlan' = [ScanPlan(World, answer) EXCEPT !.edits = uiPlan.edits]
  /\ step' = "preview"
  /\ UNCHANGED <<engine, files, dirs, backups, undoStack, history, plan, fault, runs,
                 snaps, last, reqs, child>>

\* PreviewPlan.toggleFileSelection(fileId)
ToggleFileSelection(fileId) ==
  /\ engine = "app"
  /\ step = "preview"
  /\ uiPlan.edits < MaxEdits /\ runs < MaxAppRuns
  /\ uiPlan' = [uiPlan EXCEPT
                  !.files = [i \in DOMAIN uiPlan.files |->
                               IF uiPlan.files[i].id = fileId
                               THEN [uiPlan.files[i] EXCEPT !.selected = ~@]
                               ELSE uiPlan.files[i]],
                  !.edits = @ + 1]
  /\ UNCHANGED <<engine, files, dirs, backups, undoStack, history, plan, fault, runs,
                 snaps, last, step, reqs, child>>

\* PreviewPlan.updateDuplicateKeep(groupHash, keepIndex)
UpdateDuplicateKeep(groupHash, keepIndex) ==
  /\ engine = "app"
  /\ step = "preview"
  /\ uiPlan.edits < MaxEdits /\ runs < MaxAppRuns
  /\ uiPlan' = [uiPlan EXCEPT
                  !.duplicates = [g \in DOMAIN uiPlan.duplicates |->
                                    IF uiPlan.duplicates[g].hash = groupHash
                                    THEN [uiPlan.duplicates[g] EXCEPT !.keepIndex = keepIndex]
                                    ELSE uiPlan.duplicates[g]],
                  !.edits = @ + 1]
  /\ UNCHANGED <<engine, files, dirs, backups, undoStack, history, plan, fault, runs,
                 snaps, last, step, reqs, child>>

\* the execute button of PreviewPlan is disabled when nothing is to be done
ExecuteEnabled(p) ==
  LET filesToRename == SelectSeq(p.files, LAMBDA f : f.needsRename /\ ~f.isDirectory
                                                      /\ ~f.isShortcut)
      filesToMove == SelectSeq(p.files, LAMBDA f : f.needsMove /\ ~f.isDirectory
                                                    /\ ~f.isShortcut)
  IN ~(Len(filesToMove) = 0 /\ Len(filesToRename) = 0 /\ p.duplicateCount = 0)

\* the executing step entered while the scan is still running
HandleExecute_FromScanning ==
  /\ engine = "app"
  /\ step \in {"scanning", "preview"}
  /\ step' = "executing"
  /\ UNCHANGED <<engine, files, dirs, backups, undoStack, history, plan, fault, runs,
                 snaps, last, uiPlan, reqs, child>>

\* App.handleExecute
HandleExecute ==
  /\ engine = "app"
  /\ step = "preview"
  /\ ExecuteEnabled(uiPlan)
  /\ step' = "executing"
  /\ UNCHANGED <<engine, files, dirs, backups, undoStack, history, plan, fault, runs,
                 snaps, last, uiPlan, reqs, child>>

\* App.handleBackToSelect
HandleBackToSelect ==
  /\ engine \in {"app", "scan"}
  /\ step = "preview"
  /\ step' = "select"
  /\ uiPlan' = [NoPlan EXCEPT !.edits = uiPlan.edits]
  /\ UNCHANGED <<engine, files, dirs, backups, undoStack, history, plan, fault, runs,
                 snaps, last, reqs, child>>

\* Executing.execute on the desktop: the call of fs:executeOrganize and
\* what follows it.  A failed call leaves the Executing screen showing its
\* error: step "failed".
Execute ==
  /\ engine = "app"
  /\ step = "executing"
  /\ runs < MaxAppRuns
  /\ \E organizePlan \in {OrganizePlan(uiPlan)} :
       /\ FsExecuteOrganize(organizePlan)
       /\ plan' = organizePlan
  /\ step' = IF last'.success THEN "report" ELSE "failed"
  /\ UNCHANGED <<engine, fault, history, uiPlan, reqs, child>>

\* Executing's first effect runs with isDesktop still false (the state of its
\* own useElectron, set by init after the first render) and starts the
\* interval of the demo; the clean-up is returned by the inner function, not
\* by the effect, so the interval outlives the second effect and its last
\* tick calls onComplete. The case followed: fs:executeOrganize has returned
\* an error before that tick.
DemoComplete ==
  /\ engine = "app"
  /\ step = "failed"
  /\ step' = "report"
  /\ UNCHANGED <<engine, files, dirs, backups, undoStack, history, plan, fault, runs,
                 snaps, last, uiPlan, reqs, child>>

\* App.handleReset
HandleReset ==
  /\ engine = "app"
  /\ step = "report"
  /\ step' = "select"
  /\ uiPlan' = [NoPlan EXCEPT !.edits = uiPlan.edits]
  /\ UNCHANGED <<engine, files, dirs, backups, undoStack, history, plan, fault, runs,
                 snaps, last, reqs, child>>

\* Report.handleUndo followed by App.handleUndo
HandleUndo ==
  /\ engine = "app"
  /\ step = "report"
  /\ FsUndoOrganize
  /\ IF last'.kind = "undo"
     THEN step' = "select" /\ uiPlan' = [NoPlan EXCEPT !.edits = uiPlan.edits]
     ELSE UNCHANGED <<step, uiPlan>>
  /\ UNCHANGED <<engine, plan, fault, runs, history, reqs, child>>

\* what the files of the catalog hold: three identical images, a fourth
\* image of the same size and other content, a shortcut and a symbolic link
\* of other sizes and two empty files
ContentOf(n) ==
  CASE n.base[1] \in {"IMG_20230101_120000", "beach", "city"} -> 1
    [] n.base[1] = "tree" -> 3
    [] n.base[1] = "app" -> 7
    [] n.base[1] = "link" -> 4
    [] OTHER -> 0

\* the folder that holds the entries S
FolderOf(S) ==
  [files |-> [q \in {Join(".", n) : n \in S \cap Range(FileOrder)} |-> ContentOf(q.name)],
   dirs |-> {n.base[1] : n \in S \ Range(FileOrder)},
   backups |-> <<>>]

\* the folders the user can select: regular files and a sub-directory
Folders ==
  {FolderOf(S) :
     S \in {X \in SUBSET ((Range(FileOrder) \ {Name("link", ".jpg")}) \cup {Name("stuff", "")}) :
              Cardinality(X) <= MaxEntries}}

NoOrganizePlan == [categories |-> <<>>, files |-> <<>>, duplicatesToDelete |-> <<>>]

Init ==
  /\ engine = "app"
  /\ \E W \in Folders :
       /\ files = W.files
       /\ dirs = W.dirs
       /\ backups = W.backups
  /\ fault \in {NoFault, [call |-> "mkdir", at |-> BackupDir(1)]}
  /\ plan = NoOrganizePlan
  /\ undoStack = <<>>
  /\ history = <<>>
  /\ snaps = <<>>
  /\ runs = 0
  /\ last = NoObs
  /\ step = "select"
  /\ uiPlan = NoPlan
  /\ reqs = <<>>
  /\ child = NoChild

Next ==
  \/ HandleSelectFolder
  \/ HandleScanComplete
  \/ \E i \in DOMAIN uiPlan.files : ToggleFileSelection(uiPlan.files[i].id)
  \/ \E g \in DOMAIN uiPlan.duplicates :
       \E fileIndex \in 0..(Len(uiPlan.duplicates[g].files) - 1) :
         UpdateDuplicateKeep(uiPlan.duplicates[g].hash, fileIndex)
  \/ HandleExecute
  \/ HandleBackToSelect
  \/ Execute
  \/ DemoComplete
  \/ HandleReset
  \/ HandleUndo

Spec == Init /\ [][Next]_vars

----------------------------------------------------------------------------
(* The scan alone, on a machine with opencode: the folder may also hold a   *)
(* symbolic link and a sub-directory named after a category.  Next to the   *)
(* application's own calls, ai:analyzeFiles is called as an IPC endpoint.   *)

ScanFolders ==
  {FolderOf(S) :
     S \in {X \in SUBSET (Range(FileOrder) \cup {Name("stuff", ""), Name("Image", "")}) :
              Cardinality(X) <= MaxEntries}}

\* arguments of ai:analyzeFiles for the folder W: what fs:scanFolder returned,
\* the same without isSymlink (the filesToAnalyze of App), and the same with
\* one more entry reported as a symbolic link
AnalyzeInputs(W) ==
  LET scanned == scanFolder(W)
  IN {scanned}
       \cup {[i \in DOMAIN scanned |->
               [name |-> scanned[i].name, path |-> scanned[i].path,
                extension |-> scanned[i].extension, size |-> scanned[i].size,
                isDirectory |-> scanned[i].isDirectory]]}
       \cup {[scanned EXCEPT ![i].isSymlink = TRUE] : i \in DOMAIN scanned}

\* ipcMain.handle('ai:analyzeFiles'); one call is followed
AnalyzeFiles ==
  /\ engine = "scan"
  /\ last.kind = "init"
  /\ \E fs \in AnalyzeInputs(World) :
       \E response \in Responses(FilesToAsk(fs)) :
         LET answer == ParsedFiles(callOpencode(response))
             r == AnalyzeFilesHandler(fs, answer)
         IN last' = [kind |-> "analyzeFiles", success |-> TRUE, files |-> fs,
                     response |-> response, answer |-> answer, results |-> r.results,
                     categoriesNeedingFolders |-> r.categoriesNeedingFolders]
  /\ UNCHANGED <<engine, files, dirs, backups, undoStack, history, plan, fault, runs,
                 snaps, step, uiPlan, reqs, child>>

InitScan ==
  /\ engine = "scan"
  /\ \E W \in ScanFolders :
       /\ files = W.files
       /\ dirs = W.dirs
       /\ backups = W.backups
  /\ fault = NoFault
  /\ plan = NoOrganizePlan
  /\ undoStack = <<>>
  /\ history = <<>>
  /\ snaps = <<>>
  /\ runs = 0
  /\ last = NoObs
  /\ step = "select"
  /\ uiPlan = NoPlan
  /\ reqs = <<>>
  /\ child = NoChild

NextScan ==
  \/ HandleSelectFolder
  \/ HandleScanComplete
  \/ HandleBackToSelect
  \/ AnalyzeFiles

SpecScan == InitScan /\ [][NextScan]_vars

----------------------------------------------------------------------------
(* fs:detectDuplicates alone, on folders of files whose contents vary       *)

MaxDupFiles == 4

DupNames ==
  {Name("beach", ".jpg"), Name("city", ".jpg"), Name("data", ".xyz"),
   Name("link", ".jpg"), Name("tree", ".jpg")}

\* contents: nothing, two of one size, one of the size lstat reports for
\* the symbolic link
DupContents == {0, 1, 2, 4}

\* ipcMain.handle('fs:detectDuplicates') on the files of the scan; the files
\* in `gone` cannot be read when their hash is taken
DetectDuplicates ==
  /\ engine = "dup"
  /\ \E gone \in {G \in SUBSET DOMAIN files : Cardinality(G) <= 1} :
       LET fs == FilesForDupCheck(scanFolder(World))
           W == [World EXCEPT !.files = [q \in DOMAIN files \ gone |-> files[q]]]
       IN last' = [kind |-> "detectDuplicates", success |-> TRUE, files |-> fs,
                   unreadable |-> gone, duplicates |-> detectDuplicates(W, fs)]
  /\ UNCHANGED <<engine, files, dirs, backups, undoStack, history, plan, fault, runs,
                 snaps, step, uiPlan, reqs, child>>

InitDup ==
  /\ engine = "dup"
  /\ \E S \in {X \in SUBSET DupNames : Cardinality(X) <= MaxDupFiles} :
       files \in [{Join(".", n) : n \in S} -> DupContents]
  /\ dirs = {}
  /\ backups = <<>>
  /\ fault = NoFault
  /\ plan = NoOrganizePlan
  /\ undoStack = <<>>
  /\ history = <<>>
  /\ snaps = <<>>
  /\ runs = 0
  /\ last = NoObs
  /\ step = "select"
  /\ uiPlan = NoPlan
  /\ reqs = <<>>
  /\ child = NoChild

NextDup == DetectDuplicates

SpecDup == InitDup /\ [][NextDup]_vars

----------------------------------------------------------------------------
(* Names: a folder that holds one file, analysed by ai:analyzeFiles, renamed *)
(* to the suggested name and analysed again.                                 *)

MaxRounds == 3

\* the names a file can carry: a prefix, a body and a tail
NamePrefixes ==
  {<<>>, <<"I", "M", "G", "_">>, <<"D", "S", "C", "_">>, <<"D", "S", "C">>, <<"t", "m", "p", "_">>, <<"S", "c", "r", "e", "e", "n", "s", "h", "o", "t", "_">>, <<"i", "n", "v", "o", "i", "c", "e", "_">>, <<"s", "c", "r", "e", "e", "n">>,
   <<"Contract", "-">>}

NameBodies ==
  {<<"0", "0", "0", "1">>, <<"1", "2", "3", "4", "5", "6">>, <<"2", "0", "2", "3", "1", "2", "0", "1">>, <<"2", "0", "2", "3", "1", "2", "0", "1", "_", "1", "2", "3", "4", "5", "6">>, <<"1", "7", "0", "1", "3", "8", "8", "8", "0", "0", "0", "0", "0">>, <<"b", "e", "a", "c", "h">>,
   <<"Data">>}

NameTails ==
  {<<>>, <<"_", "6", "5", "4", "3", "2", "1">>, <<"_", "t", "r", "i", "p">>,
   <<"_", "r", "e", "p", "o", "r", "t">>, <<" ", "(", "1", ")">>}

NameExts == {".jpg", ".pdf", ".bin"}

NameInputs ==
  {[base |-> a \o b \o c, ext |-> e] :
     a \in NamePrefixes, b \in NameBodies, c \in NameTails, e \in NameExts}

\* the entry fs:scanFolder gives for the file named n
EntryOf(n) ==
  [name |-> n, path |-> Join(".", n), size |-> SizeOf(files[Join(".", n)]),
   extension |-> n.ext, isDirectory |-> FALSE, isSymlink |-> FALSE,
   modifiedTime |-> ModifiedTime]

\* ai:analyzeFiles on what App sends for the one file of the folder
\* (opencode is not installed)
Analysed(n, round) ==
  [kind |-> "analyzeName", round |-> round, name |-> n,
   result |-> AnalyzeFilesHandler(filesToAnalyze(<<EntryOf(n)>>), NoAnswer).results[1]]

AnalyzeName ==
  /\ engine = "name"
  /\ last.kind = "init"
  /\ \E p \in DOMAIN files : last' = Analysed(basename(p), 1)
  /\ UNCHANGED <<engine, files, dirs, backups, undoStack, history, plan, fault, runs,
                 snaps, step, uiPlan, reqs, child>>

\* the file takes the suggested name and the folder is analysed again
RenameAndAnalyze ==
  /\ engine = "name"
  /\ last.kind = "analyzeName"
  /\ last.result.needsRename
  /\ last.round < MaxRounds
  /\ LET from == Join(".", last.name)
         to == Join(".", last.result.suggestedName)
     IN /\ files' = (to :> files[from])
        /\ last' = [kind |-> "analyzeName", round |-> last.round + 1,
                    name |-> last.result.suggestedName,
                    result |-> AnalyzeFilesHandler(
                                 filesToAnalyze(
                                   <<[EntryOf(last.name) EXCEPT
                                        !.name = last.result.suggestedName,
                                        !.path = to]>>),
                                 NoAnswer).results[1]]
  /\ UNCHANGED <<engine, dirs, backups, undoStack, history, plan, fault, runs, snaps,
                 step, uiPlan, reqs, child>>

InitName ==
  /\ engine = "name"
  /\ \E n \in NameInputs : files = (Join(".", n) :> 1)
  /\ dirs = {}
  /\ backups = <<>>
  /\ fault = NoFault
  /\ plan = NoOrganizePlan
  /\ undoStack = <<>>
  /\ history = <<>>
  /\ snaps = <<>>
  /\ runs = 0
  /\ last = NoObs
  /\ step = "select"
  /\ uiPlan = NoPlan
  /\ reqs = <<>>
  /\ child = NoChild

NextName == AnalyzeName \/ RenameAndAnalyze

SpecName == InitName /\ [][NextName]_vars

----------------------------------------------------------------------------
(* The two IPC handlers as the main process runs them: a handler is an      *)
(* async function, ipcMain.handle starts one for every request, and a       *)
(* handler gives up control at each await.  A request in flight is          *)
(*   [kind, phase, i, operations, createdDirs, pending, todo, restored, run] *)
(* where pending is the file-system call it awaits; a step of a request is  *)
(* the completion of that call followed by the handler's code up to its     *)
(* next await or its return.                                                *)

MaxActive == 2

NoCall == [call |-> "none", from |-> NoPath, to |-> NoPath, backupPath |-> NoPath]
Call(c, from, to, backupPath) ==
  [call |-> c, from |-> from, to |-> to, backupPath |-> backupPath]

Idle ==
  [kind |-> "idle", phase |-> "", i |-> 0, operations |-> <<>>, createdDirs |-> {},
   pending |-> NoCall, todo |-> <<>>, restored |-> 0, run |-> 0,
   plan |-> [categories |-> <<>>, files |-> <<>>, duplicatesToDelete |-> <<>>]]

\* the awaited call completes
ApplyPending(W, pd, run) ==
  CASE pd.call = "mkdirBackup" ->
         [ok |-> ~Fails("mkdir", BackupDir(run)), W |-> W]
    [] pd.call = "mkdir" -> MkdirCall(W, pd.from, TRUE)
    [] pd.call = "rename" -> RenameCall(W, pd.from, pd.to, TRUE)
    [] pd.call = "copyFile" -> CopyToBackup(W, pd.from, pd.backupPath, TRUE)
    [] pd.call = "unlink" -> UnlinkCall(W, pd.from, TRUE)
    [] pd.call = "undoRename" -> RenameCall(W, pd.from, pd.to, FALSE)
    [] pd.call = "undoCopyFile" -> CopyFromBackup(W, pd.backupPath, pd.from)
    [] pd.call = "undoUnlink" -> UnlinkBackup(W, pd.backupPath)
    [] pd.call = "rmdir" -> RmdirCall(W, pd.from)
    [] OTHER -> [ok |-> TRUE, W |-> W]

\* step 3 from duplicate i on: the next copyFile, or the end of the try block
FromDups(req, W, p, i) ==
  IF i <= Len(p.duplicatesToDelete)
  THEN [req EXCEPT !.phase = "copyFile", !.i = i,
                   !.pending = Call("copyFile", p.duplicatesToDelete[i], NoPath,
                                    BackupPath(req.run, p.duplicatesToDelete[i]))]
  ELSE [req EXCEPT !.phase = "return", !.pending = NoCall]

\* step 2 from file i on: the conflict loop runs now, the rename is awaited
RECURSIVE FromFiles(_, _, _, _)
FromFiles(req, W, p, i) ==
  IF i > Len(p.files) THEN FromDups(req, W, p, 1)
  ELSE IF TargetPath(p.files[i]) = p.files[i].path THEN FromFiles(req, W, p, i + 1)
  ELSE [req EXCEPT !.phase = "rename", !.i = i,
                   !.pending = Call("rename", p.files[i].path,
                                    FinalPath(W, TargetPath(p.files[i])), NoPath)]

\* step 1 from category i on: existsSync runs now, the mkdir is awaited
RECURSIVE FromDirs(_, _, _, _)
FromDirs(req, W, p, i) ==
  IF i > Len(p.categories) THEN FromFiles(req, W, p, 1)
  ELSE IF existsSync(W, DirPath(p.categories[i])) THEN FromDirs(req, W, p, i + 1)
  ELSE [req EXCEPT !.phase = "mkdir", !.i = i,
                   !.pending = Call("mkdir", DirPath(p.categories[i]), NoPath, NoPath)]

\* the code of fs:executeOrganize that follows the completion of an await
ContinueExecute(req, ok, W, p) ==
  CASE req.phase = "mkdirBackup" ->
         IF ok THEN FromDirs(req, W, p, 1) ELSE [req EXCEPT !.phase = "thrown"]
    [] req.phase = "mkdir" ->
         IF ok
         THEN FromDirs([req EXCEPT !.createdDirs = @ \cup {req.pending.from},
                                   !.operations =
                                      Append(@, Op("mkdir", req.pending.from, NoPath, NoPath))],
                       W, p, req.i + 1)
         ELSE [req EXCEPT !.phase = "thrown"]
    [] req.phase = "rename" ->
         FromFiles(IF ok
                   THEN [req EXCEPT !.operations =
                           Append(@, Op(IF Flag(p.files[req.i], "needsMove")
                                        THEN "move" ELSE "rename",
                                        req.pending.from, req.pending.to, NoPath))]
                   ELSE req,
                   W, p, req.i + 1)
    [] req.phase = "copyFile" ->
         IF ok
         THEN [req EXCEPT !.phase = "unlink",
                          !.pending = [req.pending EXCEPT !.call = "unlink"]]
         ELSE FromDups(req, W, p, req.i + 1)
    [] OTHER ->
         FromDups(IF ok
                  THEN [req EXCEPT !.operations =
                          Append(@, Op("delete", req.pending.from, NoPath,
                                       req.pending.backupPath))]
                  ELSE req,
                  W, p, req.i + 1)

\* the loop of fs:undoOrganize from operation i on: the next awaited call
RECURSIVE UndoFrom(_, _)
UndoFrom(req, i) ==
  IF i > Len(req.todo) THEN [req EXCEPT !.phase = "return", !.pending = NoCall]
  ELSE LET op == req.todo[i]
       IN IF op.type \in {"move", "rename"} /\ op.to # NoPath
          THEN [req EXCEPT !.phase = "undoRename", !.i = i,
                           !.pending = Call("undoRename", op.to, op.from, NoPath)]
          ELSE IF op.type = "delete" /\ op.backupPath # NoPath
          THEN [req EXCEPT !.phase = "undoCopyFile", !.i = i,
                           !.pending = Call("undoCopyFile", op.from, NoPath, op.backupPath)]
          ELSE IF op.type = "mkdir"
          THEN [req EXCEPT !.phase = "rmdir", !.i = i,
                           !.pending = Call("rmdir", op.from, NoPath, NoPath)]
          ELSE UndoFrom(req, i + 1)

\* the code of fs:undoOrganize that follows the completion of an await
ContinueUndo(req, ok) ==
  CASE req.phase = "undoRename" ->
         UndoFrom(IF ok THEN [req EXCEPT !.restored = @ + 1] ELSE req, req.i + 1)
    [] req.phase = "undoCopyFile" ->
         IF ok
         THEN [req EXCEPT !.phase = "undoUnlink",
                          !.pending = [req.pending EXCEPT !.call = "undoUnlink"]]
         ELSE UndoFrom(req, req.i + 1)
    [] req.phase = "undoUnlink" ->
         UndoFrom(IF ok THEN [req EXCEPT !.restored = @ + 1] ELSE req, req.i + 1)
    [] OTHER -> UndoFrom(req, req.i + 1)

\* the plans a request can carry: the plan of the application, or a plan
\* that renames another file of the folder to a name the first plan uses
RequestPlans ==
  {plan,
   [categories |-> <<>>, files |-> <<PlanFile(P2, NameOf(4), FALSE, TRUE)>>,
    duplicatesToDelete |-> <<>>]}

\* a request for fs:executeOrganize arrives with its plan: the handler runs
\* to its first await, mkdir(backupDir)
InvokeExecute(s) ==
  /\ engine = "conc"
  /\ reqs[s].kind = "idle"
  /\ runs < MaxRuns
  /\ \E p \in RequestPlans :
       reqs' = [reqs EXCEPT ![s] =
                  [Idle EXCEPT !.kind = "execute", !.phase = "mkdirBackup",
                               !.run = runs + 1, !.plan = p,
                               !.pending = Call("mkdirBackup", NoPath, NoPath, NoPath)]]
  /\ runs' = runs + 1
  /\ UNCHANGED <<engine, files, dirs, backups, undoStack, history, plan, fault, snaps,
                 last, step, uiPlan, child>>

\* an await of fs:executeOrganize completes
StepExecute(s) ==
  /\ engine = "conc"
  /\ reqs[s].kind = "execute"
  /\ \E r \in {ApplyPending(World, reqs[s].pending, reqs[s].run)} :
     \E c \in {ContinueExecute(reqs[s], r.ok, r.W, reqs[s].plan)} :
       /\ files' = r.W.files
       /\ dirs' = r.W.dirs
       /\ backups' = r.W.backups
       /\ undoStack' = IF c.phase = "return"
                       THEN Append(undoStack,
                                   [timestamp |-> c.run, operations |-> c.operations])
                       ELSE undoStack
       /\ reqs' = [reqs EXCEPT ![s] = IF c.phase \in {"return", "thrown"} THEN Idle ELSE c]
       /\ last' = IF c.phase \in {"return", "thrown"}
                  THEN [NoObs EXCEPT !.kind = "execute", !.success = (c.phase = "return"),
                                     !.operations = c.operations,
                                     !.createdDirs = c.createdDirs]
                  ELSE last
  /\ UNCHANGED <<engine, history, plan, fault, runs, snaps, step, uiPlan, child>>

\* a request for fs:undoOrganize arrives: undoStack.pop(), then the handler
\* returns at once or runs to its first await
InvokeUndo(s) ==
  /\ engine = "conc"
  /\ reqs[s].kind = "idle"
  /\ IF undoStack = <<>>
     THEN /\ last' = [NoObs EXCEPT !.kind = "undo-empty", !.success = FALSE]
          /\ UNCHANGED <<undoStack, reqs>>
     ELSE \E c \in {UndoFrom([Idle EXCEPT
                                !.kind = "undo",
                                !.todo = Reverse(undoStack[Len(undoStack)].operations)],
                             1)} :
            /\ undoStack' = SubSeq(undoStack, 1, Len(undoStack) - 1)
            /\ reqs' = [reqs EXCEPT ![s] = IF c.phase = "return" THEN Idle ELSE c]
            /\ last' = IF c.phase = "return"
                       THEN [NoObs EXCEPT !.kind = "undo"]
                       ELSE last
  /\ UNCHANGED <<engine, files, dirs, backups, history, plan, fault, runs, snaps, step,
                 uiPlan, child>>

\* an await of fs:undoOrganize completes
StepUndo(s) ==
  /\ engine = "conc"
  /\ reqs[s].kind = "undo"
  /\ \E r \in {ApplyPending(World, reqs[s].pending, reqs[s].run)} :
     \E c \in {ContinueUndo(reqs[s], r.ok)} :
       /\ files' = r.W.files
       /\ dirs' = r.W.dirs
       /\ backups' = r.W.backups
       /\ reqs' = [reqs EXCEPT ![s] = IF c.phase = "return" THEN Idle ELSE c]
       /\ last' = IF c.phase = "return"
                  THEN [NoObs EXCEPT !.kind = "undo", !.restored = c.restored,
                                     !.operations = c.todo]
                  ELSE last
  /\ UNCHANGED <<engine, undoStack, history, plan, fault, runs, snaps, step, uiPlan, child>>

\* the plans of the interleaving specification
ConcPlans ==
  {[categories |-> <<"Image">>,
    files |-> <<PlanFile(P1, basename(P1), TRUE, FALSE), PlanFile(P2, NameOf(4), FALSE, TRUE)>>,
    duplicatesToDelete |-> <<P3>>],
   [categories |-> <<>>,
    files |-> <<PlanFile(P1, NameOf(4), FALSE, TRUE)>>,
    duplicatesToDelete |-> <<>>],
   [categories |-> <<"Image">>, files |-> <<>>, duplicatesToDelete |-> <<P3>>]}

InitConc ==
  /\ engine = "conc"
  /\ files = (P1 :> 1) @@ (P2 :> 2) @@ (P3 :> 1)
  /\ dirs = {}
  /\ backups = <<>>
  /\ plan \in ConcPlans
  /\ fault \in {NoFault, [call |-> "rename", at |-> P1]}
  /\ undoStack = <<>>
  /\ history = <<>>
  /\ snaps = <<>>
  /\ runs = 0
  /\ last = NoObs
  /\ step = "none"
  /\ uiPlan = NoPlan
  /\ reqs = [s \in 1..MaxActive |-> Idle]
  /\ child = NoChild

NextConc ==
  \E s \in 1..MaxActive :
    \/ InvokeExecute(s)
    \/ StepExecute(s)
    \/ InvokeUndo(s)
    \/ StepUndo(s)

SpecConc == InitConc /\ [][NextConc]_vars

----------------------------------------------------------------------------
(* Properties of the two engines, checked under SpecEngine *)

\* the log the engine keeps for undo
Log == IF engine = "ipc" THEN undoStack ELSE history

IsNumbered(ev, k) ==
  ev.to = Join(dirname(ev.target), WithCounter(basename(ev.target), k))

\* the k-th candidate of the conflict loop: target, target_1, target_2, ...
Candidate(ev, k) ==
  IF k = 0 THEN ev.target
  ELSE Join(dirname(ev.target), WithCounter(basename(ev.target), k))

\* no run places more files than the plan holds
MaxCounter == MaxPlanFiles + 1

C5_BackupBeforeRemove ==
  (engine = "ipc" /\ last.kind = "execute") =>
    /\ \A i \in DOMAIN last.dupev :
         LET ev == last.dupev[i]
         IN /\ ev.removed => ev.copied
            /\ ev.logged => (ev.copied /\ ev.removed)
            /\ ev.removed =>
                 /\ BackupPath(runs, ev.path) \in DOMAIN backups
                 /\ ev.path \notin DOMAIN files
            /\ (ev.present /\ ~ev.copied) =>
                 /\ ~ev.removed /\ ~ev.logged
                 /\ ev.path \in DOMAIN files
    /\ CountType(last.operations, "delete")
         = Cardinality({i \in DOMAIN last.dupev : last.dupev[i].logged})

\* C5 witness: a run in which the copy of an existing duplicate failed, the
\* original is still in place and nothing was logged for it.
C5_Witness ==
  /\ engine = "ipc" /\ last.kind = "execute" /\ last.success
  /\ \E i \in DOMAIN last.dupev :
       /\ last.dupev[i].present /\ ~last.dupev[i].copied
       /\ last.dupev[i].path \in DOMAIN files
  /\ CountType(last.operations, "delete") = 0

\* C8 (as claimed): a create-directory operation is logged only for a
\* directory that did not exist before the run, and an undo never removes a
\* directory that existed before the run it reverts.
C8_CreateDirOnlyIfNew ==
  /\ last.kind = "execute" =>
       \A i \in DOMAIN last.operations :
         last.operations[i].type \in {"mkdir", "create_dir"}
           => dirname(last.operations[i].from) \notin last.pre.dirs
  /\ last.kind = "undo" => last.removed \cap {DirPath(d) : d \in last.pre.dirs} = {}

\* C10 (as claimed): when the rename of one file fails during execute, the
\* call still reports success, logs no move or rename for that file and
\* pushes the log of the operations that succeeded.
C10_FailedFileDoesNotAbort ==
  (last.kind = "execute" /\ \E i \in DOMAIN last.moves : ~last.moves[i].ok) =>
    /\ last.success
    /\ \A i \in DOMAIN last.moves :
         ~last.moves[i].ok =>
           \A j \in DOMAIN last.operations :
             last.operations[j].type \in {"move", "rename"}
               => last.operations[j].from # last.moves[i].from
    /\ Len(Log) = Len(last.stackBefore) + 1
    /\ Log[Len(Log)].operations = last.operations

\* C11: when an execute call returns an error (success = false) the undo
\* stack (FileService: the history) is exactly what it was before the call.
C11_ErrorLeavesStack ==
  (last.kind = "execute" /\ ~last.success) => Log = last.stackBefore

\* C11 witness: fs:executeOrganize failed after an earlier run had pushed
\* its log, and that log is still the whole stack.
C11_Witness ==
  /\ engine = "ipc" /\ last.kind = "execute" /\ ~last.success
  /\ Len(last.stackBefore) = 1
  /\ undoStack = last.stackBefore

\* C12 (as claimed): whenever fs:executeOrganize returns an error, the run
\* has created no category directory and has moved, renamed or removed no
\* file of the organized folder.
C12_ErrorBeforeMutation ==
  (engine = "ipc" /\ last.kind = "execute" /\ ~last.success) =>
    /\ last.createdDirs = {}
    /\ last.post = last.pre

\* what reversing one logged operation in world W has to do, and whether it
\* can: a file goes back from op.to (or from its backup) to op.from, an empty
\* created directory is removed
Reversal(W, op) ==
  IF op.type \in {"move", "rename"}
  THEN IF op.to \in DOMAIN W.files /\ DirExists(W, op.from.dir)
       THEN [ok |-> TRUE,
             W |-> [W EXCEPT !.files =
                      [q \in (DOMAIN W.files \ {op.to}) \cup {op.from} |->
                         IF q = op.from THEN W.files[op.to] ELSE W.files[q]]]]
       ELSE [ok |-> FALSE, W |-> W]
  ELSE IF op.type = "delete"
  THEN IF op.backupPath \in DOMAIN W.backups /\ DirExists(W, op.from.dir)
       THEN [ok |-> TRUE,
             W |-> [W EXCEPT !.files =
                      [q \in DOMAIN W.files \cup {op.from} |->
                         IF q = op.from THEN W.backups[op.backupPath] ELSE W.files[q]],
                    !.backups =
                      [k \in DOMAIN W.backups \ {op.backupPath} |-> W.backups[k]]]]
       ELSE [ok |-> FALSE, W |-> W]
  ELSE IF op.from.dir \in W.dirs /\ \A q \in DOMAIN W.files : q.dir # op.from.dir
       THEN [ok |-> FALSE, W |-> [W EXCEPT !.dirs = @ \ {op.from.dir}]]
       ELSE [ok |-> FALSE, W |-> W]

\* all reversals of a log, last operation first; count is the number of file
\* reversals that succeeded
RECURSIVE Reversals(_, _, _)
Reversals(ops, i, T) ==
  IF i = 0 THEN T
  ELSE LET r == Reversal(T.W, ops[i])
       IN Reversals(ops, i - 1,
                    [W |-> r.W, count |-> T.count + (IF r.ok THEN 1 ELSE 0)])

\* C13: an undo of fs:undoOrganize on a non-empty stack returns success,
\* attempts the reversal of every operation of the popped log whether or not
\* earlier reversals failed (a non-empty created directory is left alone),
\* and reports as restored the number of move, rename and duplicate
\* operations whose reversal succeeded.
C13_UndoBestEffort ==
  (engine = "ipc" /\ last.kind = "undo") =>
    LET T == Reversals(last.operations, Len(last.operations),
                       [W |-> last.before, count |-> 0])
    IN /\ last.success
       /\ last.post = Snapshot(T.W)
       /\ backups = T.W.backups
       /\ last.restored = T.count

\* C13 witness: an undo in which the reversal of a later operation failed
\* (its file had been deleted), the reversal of an earlier operation then
\* succeeded, and one restored file was reported.
C13_Witness ==
  /\ engine = "ipc" /\ last.kind = "undo" /\ last.success
  /\ last.restored = 1
  /\ \E i, j \in DOMAIN last.operations :
       /\ i < j
       /\ last.operations[i].type = "move" /\ last.operations[j].type = "move"
       /\ last.operations[j].to \notin DOMAIN last.before.files
       /\ last.operations[j].from \notin DOMAIN files
       /\ last.operations[i].from \in DOMAIN files

\* C13, second case: a directory the run created holds a file the user
\* added; the undo left it in place, restored the run's file and succeeded.
C13_WitnessNonEmptyDir ==
  /\ engine = "ipc" /\ last.kind = "undo" /\ last.success
  /\ last.restored >= 1
  /\ \E i \in DOMAIN last.operations :
       /\ last.operations[i].type = "mkdir"
       /\ dirname(last.operations[i].from) \in dirs
       /\ Join(dirname(last.operations[i].from), UserFile) \in DOMAIN files

\* the delete operations a run logged for the path d
DeletesOf(d) ==
  {i \in DOMAIN last.operations :
     last.operations[i].type = "delete" /\ last.operations[i].from = d}

\* C21: in a run of fs:executeOrganize without filesystem faults, every path
\* of duplicatesToDelete that held a file when the run began yields exactly
\* one delete operation whose backup holds that file, and the file is in the
\* folder no more, neither at its path nor where the run moved it.
C21_DuplicatesRemoved ==
  (engine = "ipc" /\ fault = NoFault /\ last.kind = "execute" /\ last.success) =>
    \A k \in DOMAIN plan.duplicatesToDelete :
      LET d == plan.duplicatesToDelete[k]
      IN d \in DOMAIN last.pre.files =>
           /\ Cardinality(DeletesOf(d)) = 1
           /\ d \notin DOMAIN last.post.files
           /\ \A i \in DOMAIN last.operations :
                (last.operations[i].type \in {"move", "rename"}
                   /\ last.operations[i].from = d)
                  => last.operations[i].to \notin DOMAIN last.post.files

----------------------------------------------------------------------------
(* Properties of the stack of logs, checked under SpecLog *)

Front(s) == SubSeq(s, 1, Len(s) - 1)

\* what an undo call without identifier has to do to the stack: reverse the
\* log on top and pop it; on an empty stack, fail
PopsTop ==
  /\ last.kind = "undo" =>
       /\ last.stackBefore # <<>>
       /\ last.operations = last.stackBefore[Len(last.stackBefore)].operations
       /\ Log = Front(last.stackBefore)
  /\ last.kind = "undo-empty" => (~last.success /\ Log = <<>>)

\* C14 (as claimed): the stack of logs is last-in-first-out and unbounded:
\* a successful execute puts its log on top of what was there, so that after
\* n executes and k undos it holds exactly the first n - k logs; an undo
\* without identifier reverses and pops the top log; an undo on the empty
\* stack fails.
C14_Lifo ==
  /\ (last.kind = "execute" /\ last.success) =>
       /\ Log # <<>>
       /\ Log[Len(Log)].operations = last.operations
       /\ Front(Log) = last.stackBefore
  /\ PopsTop

\* C14 (amended): as above, except that FileService keeps at most
\* maxHistorySize logs: a push onto a full history drops its oldest log.
C14_LifoBounded ==
  /\ (last.kind = "execute" /\ last.success) =>
       /\ Log # <<>>
       /\ Log[Len(Log)].operations = last.operations
       /\ Front(Log) =
            IF engine = "svc" /\ Len(last.stackBefore) = maxHistorySize
            THEN Tail(last.stackBefore) ELSE last.stackBefore
  /\ PopsTop

\* C14 witness: FileService has run more often than its history holds logs;
\* an undo without identifier popped the newest of ten logs, and the oldest
\* log that is left is that of the second run.
C14_Witness ==
  /\ engine = "svc" /\ last.kind = "undo"
  /\ runs > maxHistorySize
  /\ Len(last.stackBefore) = maxHistorySize
  /\ last.stackBefore[maxHistorySize].id = IdOf(runs)
  /\ Len(history) = maxHistorySize - 1
  /\ history[1].id = IdOf(2)

----------------------------------------------------------------------------
(* Properties of the scan, checked under SpecScan *)

\* the entries of an ai:analyzeFiles request that are not directories and
\* that classifyFile puts in category c
Members(fs, c) ==
  {i \in DOMAIN fs :
     ~Flag(fs[i], "isDirectory")
       /\ LocalCategory(fs, i) = c}

\* C15: in the answer of ai:analyzeFiles a category is given a subdirectory
\* exactly if classification put at least 3 entries that are not directories
\* in it and it is neither Shortcut nor Other; the files of such a category
\* all have needsMove, the files of any other category do not.  With two
\* Image files there is no Image subdirectory and neither file moves; with
\* three, all three move.
C15_Threshold ==
  last.kind = "analyzeFiles" =>
    /\ \A c \in {"Image", "Document", "Invoice", "Shortcut", "Folder", "Other"} :
         /\ c \in last.categoriesNeedingFolders
              <=> (Cardinality(Members(last.files, c)) >= 3 /\ c \notin {"Shortcut", "Other"})
         /\ \A i \in Members(last.files, c) :
              last.results[i].needsMove <=> c \in last.categoriesNeedingFolders
    /\ Cardinality(Members(last.files, "Image")) = 2 =>
         /\ "Image" \notin last.categoriesNeedingFolders
         /\ \A i \in Members(last.files, "Image") : ~last.results[i].needsMove
    /\ Cardinality(Members(last.files, "Image")) = 3 =>
         /\ "Image" \in last.categoriesNeedingFolders
         /\ \A i \in Members(last.files, "Image") : last.results[i].needsMove

\* C15 witness: an analysis of three Image files, all of them to be moved
C15_Witness ==
  /\ last.kind = "analyzeFiles"
  /\ Cardinality(Members(last.files, "Image")) = 3
  /\ last.categoriesNeedingFolders = {"Image"}
  /\ \A i \in DOMAIN last.results : last.results[i].needsMove

\* an analysis of two Image files next to a directory of category Image:
\* the directory is not counted, and nothing moves
C15_WitnessTwo ==
  /\ last.kind = "analyzeFiles"
  /\ Len(last.files) = 3
  /\ Cardinality(Members(last.files, "Image")) = 2
  /\ \A i \in DOMAIN last.results : last.results[i].category = "Image"
  /\ last.categoriesNeedingFolders = {}
  /\ \A i \in DOMAIN last.results : ~last.results[i].needsMove

\* C16: in the plan the application shows after a scan,
\* categoriesNeedingFolders holds exactly the categories of the files that
\* have needsMove.
C16_NeedingFoldersExact ==
  step = "preview" =>
    Range(uiPlan.categoriesNeedingFolders)
      = {uiPlan.files[i].category : i \in {j \in DOMAIN uiPlan.files : uiPlan.files[j].needsMove}}

\* C17: in the plan shown after a scan, an entry that is a directory, has a
\* shortcut extension or is a symbolic link has neither needsRename nor
\* needsMove.
C17_DirsAndShortcutsStay ==
  step = "preview" =>
    \A i \in DOMAIN uiPlan.files :
      LET f == uiPlan.files[i]
      IN (f.isDirectory \/ isShortcutOrLink(f.name) \/ f.isSymlink)
           => (~f.needsRename /\ ~f.needsMove)

\* C18: in the plan shown after a scan, every entry that fs:scanFolder
\* reported as a symbolic link has the category Shortcut.
C18_SymlinkIsShortcut ==
  step = "preview" =>
    \A i \in DOMAIN uiPlan.files :
      uiPlan.files[i].isSymlink => uiPlan.files[i].category = "Shortcut"

\* C19: every category in the answer of ai:analyzeFiles, and every category
\* in the plan shown after a scan, is one of the sixteen of CategoryType,
\* whatever the oracle answered.
C19_ClosedEnumeration ==
  /\ last.kind = "analyzeFiles" =>
       /\ \A i \in DOMAIN last.results : last.results[i].category \in CategoryType
       /\ last.categoriesNeedingFolders \subseteq CategoryType
  /\ step = "preview" =>
       /\ \A i \in DOMAIN uiPlan.files : uiPlan.files[i].category \in CategoryType
       /\ Range(uiPlan.categories) \subseteq CategoryType
       /\ Range(uiPlan.categoriesNeedingFolders) \subseteq CategoryType

\* the oracle gave nothing to merge: opencode absent, timed out, failed to
\* start, ended with a code other than 0, or wrote no JSON with a files array
Degraded(response) ==
  \/ response.status # "ok"
  \/ response.output.form \in {"empty", "text", "badjson", "nofiles"}

\* C22: when the oracle is unavailable, times out, exits with a code other
\* than 0 or answers without well-formed JSON holding a files array,
\* ai:analyzeFiles succeeds with one result per entry, in order, and the
\* results are those of the local rules.
C22_OracleDegrades ==
  (last.kind = "analyzeFiles" /\ Degraded(last.response)) =>
    /\ last.success
    /\ Len(last.results) = Len(last.files)
    /\ \A i \in DOMAIN last.files : last.results[i].path = last.files[i].path
    /\ last.results = analyzeFiles(last.files)

\* C22 witness: opencode wrote a files array that re-categorises a file and
\* then ended with a code other than 0; the file kept the category Other
C22_Witness ==
  /\ last.kind = "analyzeFiles"
  /\ last.response.status = "exit"
  /\ last.response.output.form = "files"
  /\ \E i \in DOMAIN last.results :
       /\ basename(last.results[i].path) = last.response.output.files[1].name
       /\ last.response.output.files[1].category = "Image"
       /\ last.results[i].category = "Other"

----------------------------------------------------------------------------
(* Properties of duplicate detection, checked under SpecDup *)

\* the files of a fs:detectDuplicates request that have a size and can be read
Hashable == {f \in Range(last.files) : f.size # 0 /\ f.path \notin last.unreadable}

\* the sets of paths the answer holds as groups
GroupsOf(duplicates) ==
  {{duplicates[g].files[i].path : i \in DOMAIN duplicates[g].files} : g \in DOMAIN duplicates}

\* no group twice, no file twice
NoOverlap(duplicates) ==
  /\ \A g, h \in DOMAIN duplicates :
       g # h => {duplicates[g].files[i].path : i \in DOMAIN duplicates[g].files}
                  \cap {duplicates[h].files[i].path : i \in DOMAIN duplicates[h].files} = {}
  /\ \A g \in DOMAIN duplicates :
       \A i, j \in DOMAIN duplicates[g].files :
         i # j => duplicates[g].files[i].path # duplicates[g].files[j].path

\* C20 (as claimed): the answer of fs:detectDuplicates has exactly one group
\* for each content that at least two readable files of non-zero size hold,
\* made of exactly those files, and no file is in two groups.
C20_GroupsByContent ==
  last.kind = "detectDuplicates" =>
    /\ GroupsOf(last.duplicates)
         = {C \in {{f.path : f \in {x \in Hashable : files[x.path] = files[h.path]}} :
                     h \in Hashable} : Cardinality(C) >= 2}
    /\ NoOverlap(last.duplicates)

\* the files that are hashed: of non-zero size, of the same size, as the
\* request gives it, as another file of the request, and readable
Hashed ==
  {f \in Hashable :
     \E g \in Range(last.files) : g.path # f.path /\ g.size = f.size}

\* C20 (amended): the answer of fs:detectDuplicates has exactly one group for
\* each content that at least two of the hashed files hold, made of exactly
\* those files, and no file is in two groups.  A file of a size no other
\* file has, or of size zero, is in no group.
C20_GroupsAmongHashed ==
  last.kind = "detectDuplicates" =>
    /\ GroupsOf(last.duplicates)
         = {C \in {{f.path : f \in {x \in Hashed : files[x.path] = files[h.path]}} :
                     h \in Hashed} : Cardinality(C) >= 2}
    /\ NoOverlap(last.duplicates)

\* C20 witness: two files of one content form the only group; a third file of
\* their size and other content and an empty file are in none.
C20_Witness ==
  /\ last.kind = "detectDuplicates"
  /\ Len(last.files) = 4 /\ last.unreadable = {}
  /\ Len(last.duplicates) = 1
  /\ Len(last.duplicates[1].files) = 2
  /\ \E f \in Range(last.files) :
       /\ f.size = last.duplicates[1].files[1].size
       /\ \A i \in DOMAIN last.duplicates[1].files : last.duplicates[1].files[i].path # f.path
  /\ \E f \in Range(last.files) : f.size = 0

\* two groups in one answer
C20_WitnessTwoGroups ==
  /\ last.kind = "detectDuplicates"
  /\ Len(last.duplicates) = 2

\* a symbolic link to a copy of two duplicates, of a size of its own, is not
\* in their group
C20_WitnessLink ==
  /\ last.kind = "detectDuplicates"
  /\ last.unreadable = {}
  /\ Len(last.duplicates) = 1
  /\ \E f \in Range(last.files) :
       /\ IsSymbolicLink(f.name)
       /\ files[f.path] = files[last.duplicates[1].files[1].path]
       /\ \A i \in DOMAIN last.duplicates[1].files : last.duplicates[1].files[i].path # f.path

\* a file that could not be read is left out and the others still group
C20_WitnessUnreadable ==
  /\ last.kind = "detectDuplicates"
  /\ \E q \in last.unreadable :
       \E f \in Range(last.files) : f.path # q /\ f.size # 0 /\ files[f.path] = files[q]
  /\ Len(last.duplicates) = 1

----------------------------------------------------------------------------
(* Properties of the application, checked under Spec *)

PathsOf(group) == {group.files[i].path : i \in DOMAIN group.files}

\* the groups fs:detectDuplicates reports for the folder as it is
DetectedGroups == detectDuplicates(World, FilesForDupCheck(scanFolder(World)))

\* C2 (as claimed): the duplicate groups of the plan shown in the preview are
\* exactly the groups the detector reported, so a file the detector put in
\* no group is in no group of the plan and a folder of files with pairwise
\* different content has a plan without duplicate groups.
C2_GroupsOnlyFromDetector ==
  (engine = "app" /\ step = "preview") =>
    {PathsOf(g) : g \in Range(uiPlan.duplicates)}
      = {PathsOf(d) : d \in Range(DetectedGroups)}

\* the file name execute is to give a planned file
FinalName(f) == IF f.needsRename THEN f.newName ELSE basename(f.path)

\* the file that was at f.path before the run is now at target or at the
\* first free target_k
PlacedAt(f, target) ==
  \E k \in 0..MaxEntries :
    LET q == IF k = 0 THEN target
             ELSE Join(dirname(target), WithCounter(basename(target), k))
    IN q \in DOMAIN files /\ files[q] = last.pre.files[f.path]

\* C3 (as claimed): after a confirmed plan ran without file-system fault,
\* every selected file with needsMove is in the directory of its category
\* under its final name, every selected file with needsRename only is in
\* its directory under its final name, and the other files that are not
\* removed as duplicates are where they were.
C3_FilesReachTargets ==
  (engine = "app" /\ step = "report" /\ last.kind = "execute" /\ fault = NoFault) =>
    \A i \in DOMAIN uiPlan.files :
      LET f == uiPlan.files[i]
      IN f.isDirectory \/ f.path \in Range(plan.duplicatesToDelete) \/
         IF f.selected /\ f.needsMove
         THEN PlacedAt(f, Join(f.category, FinalName(f)))
         ELSE IF f.selected /\ f.needsRename
         THEN PlacedAt(f, Join(dirname(f.path), FinalName(f)))
         ELSE f.path \in DOMAIN files /\ files[f.path] = last.pre.files[f.path]

\* C6: every group the detector reports has at least two members and one
\* keeper; every group of the plan, after any keeper reassignments, has at
\* least two members and a keeper index inside the group; and the list of
\* duplicates sent to execute holds every other member of each group and
\* never the keeper's path.
C6_OneKeeperNeverDeleted ==
  engine = "app" =>
    /\ \A d \in Range(DetectedGroups) :
         /\ Len(d.files) >= 2
         /\ Cardinality({i \in DOMAIN d.files : d.files[i].isKeep}) = 1
    /\ \A g \in Range(uiPlan.duplicates) :
         /\ Len(g.files) >= 2
         /\ g.keepIndex \in 0..(Len(g.files) - 1)
         /\ g.files[g.keepIndex + 1].path
              \notin Range(DuplicatesToDelete(uiPlan.duplicates, 1))
         /\ \A i \in DOMAIN g.files :
              (i - 1) # g.keepIndex
                => g.files[i].path \in Range(DuplicatesToDelete(uiPlan.duplicates, 1))
    /\ step \in {"report", "failed"} =>
         plan.duplicatesToDelete = DuplicatesToDelete(uiPlan.duplicates, 1)

\* C6 witness: a run was given the plan of a detected group of three files
\* whose keeper had been reassigned to its last member; the two other
\* members were sent for removal.
C6_Witness ==
  /\ engine = "app" /\ step = "report"
  /\ \E g \in Range(uiPlan.duplicates) :
       /\ g.hash # <<"no-hash">>
       /\ Len(g.files) = 3 /\ g.keepIndex = 2
       /\ Range(plan.duplicatesToDelete) = {g.files[1].path, g.files[2].path}

\* C7 (as claimed): a run creates a category directory only for a category
\* in the plan's categoriesNeedingFolders.
C7_DirsOnlyForNeedingFolders ==
  (engine = "app" /\ step \in {"report", "failed"} /\ last.kind = "execute") =>
    last.createdDirs \subseteq {DirPath(c) : c \in Range(uiPlan.categoriesNeedingFolders)}

----------------------------------------------------------------------------
(* Property of the interleaved handlers, checked under SpecConc *)

ActiveRuns == {s \in DOMAIN reqs : reqs[s].kind # "idle"}

\* C9 (as claimed): at most one execute or undo run is in progress at any
\* time; a request that arrives during a run does not start a second run.
C9_OneActiveRun ==
  engine = "conc" => Cardinality(ActiveRuns) <= 1

----------------------------------------------------------------------------
(* Properties of names, checked under SpecName.                             *)

\* C23: naming is idempotent: a file that carries a name ai:analyzeFiles
\* suggested is not given needsRename when it is analysed again
C23_NamingIdempotent ==
  (last.kind = "analyzeName" /\ last.round > 1) => ~last.result.needsRename

----------------------------------------------------------------------------
(* Properties of the steps of the application, checked under Spec.          *)

\* C24: preview first: the executing step is entered only from the preview
\* step, by the execute button of a plan that is shown and has something to
\* do, and fs:executeOrganize is invoked only in the executing step, with the
\* plan that was shown
C24_PreviewFirst ==
  [][/\ (step' = "executing" /\ step # "executing")
          => (step = "preview" /\ uiPlan # NoPlan /\ ExecuteEnabled(uiPlan)
                /\ uiPlan' = uiPlan)
     /\ (runs' # runs)
          => (step = "executing" /\ ExecuteEnabled(uiPlan)
                /\ plan' = OrganizePlan(uiPlan) /\ uiPlan' = uiPlan)]_vars

\* fs:executeOrganize has run and the report is shown
C24_Witness ==
  /\ engine = "app"
  /\ step = "report"
  /\ last.kind = "execute"
  /\ runs = 1
  /\ plan = OrganizePlan(uiPlan)

\* the rows of the keyword table with a keyword in the lower-cased base name
\* of the analysed file
RowsIn(lowerName) ==
  {r \in DOMAIN keywordRules :
     \E k \in keywordRules[r].keywords :
       \E p \in 1..Len(lowerName) :
         /\ p + Len(k) - 1 <= Len(lowerName)
         /\ \A j \in 1..Len(k) : lowerName[p + j - 1] = k[j]}

C25_WitnessTwoRows ==
  /\ last.kind = "analyzeName"
  /\ Cardinality(RowsIn(toLowerCase(Chars(last.name)))) = 2
  /\ last.name.ext = ".jpg"
  /\ last.result.category = "Invoice"

----------------------------------------------------------------------------
(* Properties of FileService's history, checked under SpecLog.              *)

\* C26: the history of FileService never holds more than maxHistorySize
\* logs, and right after a successful executeOrganize the log of that run is
\* its newest entry, on top of the logs that were there, of which at most
\* the oldest was dropped
C26_HistoryBounded ==
  (engine = "svc") =>
    /\ Len(history) <= maxHistorySize
    /\ (last.kind = "execute" /\ last.success) =>
         /\ history # <<>>
         /\ history[Len(history)] = [id |-> IdOf(runs), operations |-> last.operations]
         /\ \/ SubSeq(history, 1, Len(history) - 1) = last.stackBefore
            \/ /\ last.stackBefore # <<>>
               /\ SubSeq(history, 1, Len(history) - 1) = Tail(last.stackBefore)
         /\ Len(history) >= Len(last.stackBefore)

\* a run on a full history: its log is in, the log of the first run is out
C26_Witness ==
  /\ engine = "svc"
  /\ last.kind = "execute" /\ last.success
  /\ Len(last.stackBefore) = maxHistorySize
  /\ Len(history) = maxHistorySize
  /\ history[maxHistorySize].id = IdOf(runs)
  /\ history[1] = last.stackBefore[2]

----------------------------------------------------------------------------
(* Properties of the order of an undo, checked under SpecEngine.            *)

\* C27: an undo attempts the reversals of the popped log in strict reverse
\* of the order of execution: every operation once, a later operation before
\* an earlier one, so that the files a run moved into a directory it created
\* are moved back before the removal of that directory is attempted
C27_ReverseOrder ==
  (last.kind = "undo") =>
    /\ Len(last.attempts) = Len(last.operations)
    /\ \A a, b \in DOMAIN last.operations :
         a < b => \E p, q \in DOMAIN last.attempts :
                    /\ p < q
                    /\ last.attempts[p] = last.operations[b]
                    /\ last.attempts[q] = last.operations[a]
    /\ \A p, q \in DOMAIN last.attempts :
         (/\ last.attempts[q].type \in {"mkdir", "create_dir"}
          /\ last.attempts[p].type \in {"move", "rename"}
          /\ dirname(last.attempts[p].to) = dirname(last.attempts[q].from))
           => p < q

\* an undo that moved a file back out of a directory of the run and then
\* removed the directory
C27_Witness ==
  /\ last.kind = "undo"
  /\ last.restored >= 1
  /\ last.removed # {}
  /\ \E p, q \in DOMAIN last.attempts :
       /\ p < q
       /\ last.attempts[p].type = "move"
       /\ last.attempts[q].type \in {"mkdir", "create_dir"}
       /\ dirname(last.attempts[p].to) = dirname(last.attempts[q].from)
       /\ last.attempts[q].from \in last.removed

----------------------------------------------------------------------------
(* Properties of the destinations of overlapping runs, checked under        *)
(* SpecConc.                                                                *)

\* the requests with a rename in flight: the conflict loop has resolved the
\* destination, fs.promises.rename is awaited
Renaming == {s \in DOMAIN reqs : reqs[s].pending.call = "rename"}

\* C28: no two move or rename operations, of one request or of overlapping
\* requests, use the same resolved destination: two renames in flight have
\* different destinations, and the destination of a rename in flight that
\* can succeed holds no file, so that no rename lands on the file of another
C28_DestinationsDistinct ==
  (engine = "conc") =>
    /\ \A s, u \in Renaming : s # u => reqs[s].pending.to # reqs[u].pending.to
    /\ \A s \in Renaming :
         (reqs[s].pending.from \in DOMAIN files /\ ~Fails("rename", reqs[s].pending.from))
           => reqs[s].pending.to \notin DOMAIN files

----------------------------------------------------------------------------
(* Properties of the executing step of the application, checked under Spec. *)

\* C29: on the desktop the report is entered only by a call of
\* fs:executeOrganize that returned success, every entry into the executing
\* step sends one request, and after a call that returned an error the
\* application stays on the executing step, which shows the error
C29_ReportAfterSuccess ==
  [][/\ (step' = "report" /\ step # "report")
          => (step = "executing" /\ runs' = runs + 1
                /\ last'.kind = "execute" /\ last'.success)
     /\ (step = "executing" /\ step' # "executing") => runs' = runs + 1
     /\ (step = "failed") => step' = "failed"]_vars

----------------------------------------------------------------------------
(* Properties of the files a run removes, checked under SpecEngine.         *)

\* C30: every delete operation of a run of fs:executeOrganize removed the
\* file that was at that path when the run began: the backup it names holds
\* what the path held then, not a file that a move or rename of the same run
\* placed there
C30_RemovesListedFile ==
  (engine = "ipc" /\ last.kind = "execute" /\ last.success) =>
    \A i \in DOMAIN last.operations :
      LET op == last.operations[i]
      IN (op.type = "delete") =>
           /\ op.from \in DOMAIN last.pre.files
           /\ op.backupPath \in DOMAIN backups
           /\ backups[op.backupPath] = last.pre.files[op.from]
           /\ \A j \in 1..(i - 1) :
                last.operations[j].type \in {"move", "rename"}
                  => last.operations[j].to # op.from

----------------------------------------------------------------------------
(* fs:executeOrganize on a folder with two groups of equal files, P1 = P3   *)
(* and P2 = P4, given a plan that leaves a file of each group out of its    *)
(* removals.  plan.files is in the order the caller chose, and a file can   *)
(* be given the name another file of the folder has.                        *)

P4 == Join(".", NameOf(4))

KeepNames == {NameOf(1), NameOf(2), NameOf(3)}

KeepFilesFor(p) ==
  {PlanFile(p, basename(p), TRUE, FALSE)}
    \cup {PlanFile(p, n, FALSE, TRUE) : n \in KeepNames \ {basename(p)}}

KeepPlans ==
  {[categories |-> <<"Image", "Document">>, files |-> fs, duplicatesToDelete |-> ds] :
     fs \in {<<>>} \cup {<<f>> : f \in UNION {KeepFilesFor(p) : p \in {P1, P2, P3}}}
            \cup {<<f, g>> : f \in KeepFilesFor(P1) \cup KeepFilesFor(P2) \cup KeepFilesFor(P3),
                             g \in KeepFilesFor(P1) \cup KeepFilesFor(P2) \cup KeepFilesFor(P3)},
     ds \in {<<P3>>, <<P2>>, <<P3, P2>>, <<P1, P2>>}}

InitKeep ==
  /\ engine = "keep"
  /\ plan \in {q \in KeepPlans :
                 Len(q.files) = 2 => q.files[1].path # q.files[2].path}
  /\ fault = NoFault
  /\ files = (P1 :> 1) @@ (P2 :> 2) @@ (P3 :> 1) @@ (P4 :> 2)
  /\ dirs = {}
  /\ backups = <<>>
  /\ undoStack = <<>>
  /\ history = <<>>
  /\ snaps = <<>>
  /\ runs = 0
  /\ last = NoObs
  /\ step = "none"
  /\ uiPlan = NoPlan
  /\ reqs = <<>>
  /\ child = NoChild

KeepExecute ==
  /\ engine = "keep"
  /\ runs = 0
  /\ FsExecuteOrganize(plan)
  /\ UNCHANGED <<engine, plan, fault, history, step, uiPlan, reqs, child>>

KeepUndo ==
  /\ engine = "keep"
  /\ last.kind = "execute"
  /\ FsUndoOrganize
  /\ UNCHANGED <<engine, plan, fault, runs, history, step, uiPlan, reqs, child>>

NextKeep == KeepExecute \/ KeepUndo

SpecKeep == InitKeep /\ [][NextKeep]_vars

----------------------------------------------------------------------------
(* AIService.initialize: `opencode --version` is spawned, its events and a  *)
(* timer of 5 seconds are handled as they come.  child holds the service's  *)
(* field opencodeAvailable, the child process, the timer, the promise       *)
(* initialize returned and the clock in milliseconds since the call.        *)

\* setTimeout(..., 5000)
InitTimeoutMs == 5000

\* the clock moves in steps of ClockStep up to MaxClock
ClockStep == 1000
MaxClock == 7000

\* stdout 'data' events of one process
MaxChunks == 2

\* the exit codes 'close' can give, as words: 0, another code, null after
\* a signal
ExitCodes == {"0", "1", "null"}

\* resolve(value): the first call settles the promise, a later one does nothing
Resolve(c, value) ==
  IF c.promise = "pending"
  THEN [c EXCEPT !.promise = "resolved", !.value = value, !.resolves = @ + 1]
  ELSE [c EXCEPT !.resolves = @ + 1]

\* initialize(): spawn throws into the catch, or the process starts and the
\* timer is armed
Initialize ==
  /\ engine = "init"
  /\ child.proc = "idle"
  /\ \/ child' = Resolve([child EXCEPT !.proc = "nospawn", !.opencodeAvailable = FALSE],
                         FALSE)
     \/ child' = [child EXCEPT !.proc = "running", !.timer = "armed",
                               !.deadline = child.now + InitTimeoutMs]
  /\ UNCHANGED <<engine, files, dirs, backups, undoStack, history, plan, fault, runs,
                 snaps, last, step, uiPlan, reqs>>

\* process.stdout.on('data'): versionInfo += data.toString()
InitStdoutData ==
  /\ engine = "init"
  /\ child.proc = "running"
  /\ child.versionInfo < MaxChunks
  /\ child' = [child EXCEPT !.versionInfo = @ + 1]
  /\ UNCHANGED <<engine, files, dirs, backups, undoStack, history, plan, fault, runs,
                 snaps, last, step, uiPlan, reqs>>

\* process.on('error'): the command could not be started
InitProcessError ==
  /\ engine = "init"
  /\ child.proc = "running" /\ child.versionInfo = 0 /\ ~child.killed
  /\ child' = Resolve([child EXCEPT !.proc = "failed", !.opencodeAvailable = FALSE],
                      FALSE)
  /\ UNCHANGED <<engine, files, dirs, backups, undoStack, history, plan, fault, runs,
                 snaps, last, step, uiPlan, reqs>>

\* process.on('close'): after an exit, a kill, or a failed start (whose code
\* is not 0)
InitProcessClose ==
  /\ engine = "init"
  /\ child.proc \in {"running", "failed"}
  /\ \E code \in IF child.proc = "failed" THEN {"1"} ELSE ExitCodes :
       child' = Resolve([child EXCEPT !.proc = "closed", !.code = code,
                                      !.opencodeAvailable = (code = "0")],
                        code = "0")
  /\ UNCHANGED <<engine, files, dirs, backups, undoStack, history, plan, fault, runs,
                 snaps, last, step, uiPlan, reqs>>

\* the callback of setTimeout; the timer is never cleared.  process.killed
\* is true only after a kill() of this object that delivered its signal,
\* which needs a process that still runs
InitTimeout ==
  /\ engine = "init"
  /\ child.timer = "armed" /\ child.now >= child.deadline
  /\ child' = IF ~child.killed
              THEN Resolve([child EXCEPT !.timer = "fired",
                                         !.killed = (child.proc = "running"),
                                         !.opencodeAvailable = FALSE],
                           FALSE)
              ELSE [child EXCEPT !.timer = "fired"]
  /\ UNCHANGED <<engine, files, dirs, backups, undoStack, history, plan, fault, runs,
                 snaps, last, step, uiPlan, reqs>>

\* time passes, but not past the moment an armed timer is due
ClockTick ==
  /\ engine = "init"
  /\ child.now < MaxClock
  /\ ~(child.timer = "armed" /\ child.now >= child.deadline)
  /\ \E t \in {IF child.now + ClockStep > MaxClock THEN MaxClock
                 ELSE child.now + ClockStep} :
       child' = [child EXCEPT !.now = IF child.timer = "armed" /\ t > child.deadline
                                      THEN child.deadline ELSE t]
  /\ UNCHANGED <<engine, files, dirs, backups, undoStack, history, plan, fault, runs,
                 snaps, last, step, uiPlan, reqs>>

\* private opencodeAvailable: boolean = false
InitInit ==
  /\ engine = "init"
  /\ child = [proc |-> "idle", opencodeAvailable |-> FALSE, killed |-> FALSE,
              timer |-> "none", deadline |-> 0, now |-> 0, versionInfo |-> 0,
              code |-> "none", promise |-> "pending", value |-> FALSE, resolves |-> 0]
  /\ files = <<>>
  /\ dirs = {}
  /\ backups = <<>>
  /\ fault = NoFault
  /\ plan = NoOrganizePlan
  /\ undoStack = <<>>
  /\ history = <<>>
  /\ snaps = <<>>
  /\ runs = 0
  /\ last = NoObs
  /\ step = "select"
  /\ uiPlan = NoPlan
  /\ reqs = <<>>

NextInit ==
  \/ Initialize
  \/ InitStdoutData
  \/ InitProcessError
  \/ InitProcessClose
  \/ InitTimeout
  \/ ClockTick

SpecInit == InitInit /\ [][NextInit]_vars

----------------------------------------------------------------------------
(* callOpencode of electron/main.ts: `opencode ask <prompt>` is spawned     *)
(* under a timer of 60 seconds.  child holds the process, what it wrote,    *)
(* the timer, the promise callOpencode returned, the clock and, as an       *)
(* observation, the time of the call.  A start that fails is reported by    *)
(* the 'error' event, as Node does for a missing or non-executable command. *)

\* setTimeout(..., 60000)
CallTimeoutMs == 60000

CallClockStep == 20000
MaxCallClock == 80000

\* callOpencode(prompt): null at once without opencode, else the timer is
\* armed and the process spawned
CallOpencode ==
  /\ engine = "call"
  /\ child.proc = "idle"
  /\ child.now + CallTimeoutMs <= MaxCallClock
  /\ child' = IF ~isOpencodeAvailable
              THEN Resolve([child EXCEPT !.proc = "nospawn", !.start = child.now], "null")
              ELSE [child EXCEPT !.proc = "running", !.timer = "armed",
                                 !.start = child.now,
                                 !.deadline = child.now + CallTimeoutMs]
  /\ UNCHANGED <<engine, files, dirs, backups, undoStack, history, plan, fault, runs,
                 snaps, last, step, uiPlan, reqs>>

\* child.stdout.on('data'): output += data.toString()
CallStdoutData ==
  /\ engine = "call"
  /\ child.proc = "running"
  /\ child.output < MaxChunks
  /\ child' = [child EXCEPT !.output = @ + 1]
  /\ UNCHANGED <<engine, files, dirs, backups, undoStack, history, plan, fault, runs,
                 snaps, last, step, uiPlan, reqs>>

\* child.stderr.on('data'): error += data.toString()
CallStderrData ==
  /\ engine = "call"
  /\ child.proc = "running"
  /\ ~child.error
  /\ child' = [child EXCEPT !.error = TRUE]
  /\ UNCHANGED <<engine, files, dirs, backups, undoStack, history, plan, fault, runs,
                 snaps, last, step, uiPlan, reqs>>

\* clearTimeout(timeout)
ClearTimeout(c) == IF c.timer = "armed" THEN [c EXCEPT !.timer = "cleared"] ELSE c

\* child.on('error'): the command could not be started
CallChildError ==
  /\ engine = "call"
  /\ child.proc = "running" /\ child.output = 0 /\ ~child.error
  /\ child' = Resolve(ClearTimeout([child EXCEPT !.proc = "failed"]), "null")
  /\ UNCHANGED <<engine, files, dirs, backups, undoStack, history, plan, fault, runs,
                 snaps, last, step, uiPlan, reqs>>

\* child.on('close'): code === 0 && output gives the output, all else null
CallChildClose ==
  /\ engine = "call"
  /\ child.proc \in {"running", "failed"}
  /\ \E code \in IF child.proc = "failed" THEN {"1"} ELSE ExitCodes :
       child' = Resolve(ClearTimeout([child EXCEPT !.proc = "closed", !.code = code]),
                        IF code = "0" /\ child.output > 0 THEN "output" ELSE "null")
  /\ UNCHANGED <<engine, files, dirs, backups, undoStack, history, plan, fault, runs,
                 snaps, last, step, uiPlan, reqs>>

\* the timer fires and the promise is left as it is
CallTimeout_LogOnly ==
  /\ engine = "call"
  /\ child.timer = "armed" /\ child.now >= child.deadline
  /\ child' = [child EXCEPT !.timer = "fired"]
  /\ UNCHANGED <<engine, files, dirs, backups, undoStack, history, plan, fault, runs,
                 snaps, last, step, uiPlan, reqs>>

\* the callback of setTimeout: resolve(null); the process is left running
CallTimeout ==
  /\ engine = "call"
  /\ child.timer = "armed" /\ child.now >= child.deadline
  /\ child' = Resolve([child EXCEPT !.timer = "fired"], "null")
  /\ UNCHANGED <<engine, files, dirs, backups, undoStack, history, plan, fault, runs,
                 snaps, last, step, uiPlan, reqs>>

\* time passes, but not past the moment an armed timer is due
CallClockTick ==
  /\ engine = "call"
  /\ child.now < MaxCallClock
  /\ ~(child.timer = "armed" /\ child.now >= child.deadline)
  /\ \E t \in {IF child.now + CallClockStep > MaxCallClock THEN MaxCallClock
                 ELSE child.now + CallClockStep} :
       child' = [child EXCEPT !.now = IF child.timer = "armed" /\ t > child.deadline
                                      THEN child.deadline ELSE t]
  /\ UNCHANGED <<engine, files, dirs, backups, undoStack, history, plan, fault, runs,
                 snaps, last, step, uiPlan, reqs>>

\* checkOpencode has found the tool or it has not
InitCall ==
  /\ engine = "call"
  /\ \E available \in BOOLEAN :
       child = [proc |-> "idle", available |-> available, timer |-> "none",
                start |-> 0, deadline |-> 0, now |-> 0, output |-> 0, error |-> FALSE,
                code |-> "none", promise |-> "pending", value |-> "none",
                resolves |-> 0]
  /\ files = <<>>
  /\ dirs = {}
  /\ backups = <<>>
  /\ fault = NoFault
  /\ plan = NoOrganizePlan
  /\ undoStack = <<>>
  /\ history = <<>>
  /\ snaps = <<>>
  /\ runs = 0
  /\ last = NoObs
  /\ step = "select"
  /\ uiPlan = NoPlan
  /\ reqs = <<>>

NextCall ==
  \/ CallOpencode
  \/ CallStdoutData
  \/ CallStderrData
  \/ CallChildError
  \/ CallChildClose
  \/ CallTimeout
  \/ CallClockTick

SpecCall == InitCall /\ [][NextCall]_vars

\* time passes, and the event loop, which no handler of the call blocks,
\* runs the callback of a timer that is due
SpecCallFair == SpecCall /\ WF_vars(CallClockTick) /\ WF_vars(CallTimeout)

----------------------------------------------------------------------------
(* ai:analyzeFiles with an oracle that answers what it likes: about files   *)
(* it was asked about, about other entries of the folder, about a name the  *)
(* folder does not hold, in one or two entries.                             *)

\* the entries a folder can hold, in readdir order: an image, a shortcut,
\* three files the local rules leave in Other (one of them with a camera
\* name), and a directory
OracleOrder ==
  <<[base |-> <<"D", "S", "C", "_", "0", "0", "0", "1">>, ext |-> ".bin"],
    Name("app", ".lnk"), Name("beach", ".jpg"), Name("data", ".xyz"),
    [base |-> <<"m", "e", "m", "o">>, ext |-> ".xyz"], Name("stuff", "")>>

\* a name that differs from data.xyz in case only
UpperCaseName == [base |-> <<"D", "A", "T", "A">>, ext |-> ".xyz"]

OracleEntry(n) ==
  [name |-> n, path |-> Join(".", n), size |-> 0, extension |-> n.ext,
   isDirectory |-> n = Name("stuff", ""), isSymlink |-> FALSE]

OracleFolders ==
  {SelectSeq(OracleOrder, LAMBDA n : n \in S) :
     S \in {X \in SUBSET Range(OracleOrder) : Cardinality(X) \in 1..MaxEntries}}

\* parsed.files of what the oracle wrote for the folder `names`
OracleAnswers(names) ==
  LET entries == {[name |-> n, category |-> c, reason |-> "reason"] :
                    n \in Range(names) \cup {UpperCaseName}, c \in AnswerCategories}
  IN {<<e>> : e \in entries} \cup {<<e, f>> : e \in entries, f \in entries}

\* ai:analyzeFiles on the folder; opencode is called when there is something
\* to ask, ends with code 0 and writes JSON with a files array
OracleAnalyze ==
  /\ engine = "oracle"
  /\ last.kind = "init"
  /\ LET names == SelectSeq(OracleOrder, LAMBDA n : Join(".", n) \in DOMAIN files
                                                     \/ n.base[1] \in dirs)
         fs == [i \in DOMAIN names |-> OracleEntry(names[i])]
         asked == FilesToAsk(fs)
     IN \E a \in IF asked = {} THEN {NoAnswer} ELSE OracleAnswers(names) :
          LET response == [status |-> IF asked = {} THEN "unavailable" ELSE "ok",
                           output |-> Output("files", a)]
              answer == ParsedFiles(callOpencode(response))
              r == AnalyzeFilesHandler(fs, answer)
          IN last' = [kind |-> "oracle", success |-> TRUE, files |-> fs,
                      asked |-> asked, answer |-> answer, results |-> r.results,
                      categoriesNeedingFolders |-> r.categoriesNeedingFolders]
  /\ UNCHANGED <<engine, files, dirs, backups, undoStack, history, plan, fault, runs,
                 snaps, step, uiPlan, reqs, child>>

\* the folder is scanned again
OracleRescan ==
  /\ engine = "oracle"
  /\ last.kind = "oracle"
  /\ last' = NoObs
  /\ UNCHANGED <<engine, files, dirs, backups, undoStack, history, plan, fault, runs,
                 snaps, step, uiPlan, reqs, child>>

InitOracle ==
  /\ engine = "oracle"
  /\ \E names \in OracleFolders :
       /\ files = [q \in {Join(".", n) : n \in Range(names) \ {Name("stuff", "")}} |-> 0]
       /\ dirs = {n.base[1] : n \in Range(names) \cap {Name("stuff", "")}}
  /\ backups = <<>>
  /\ fault = NoFault
  /\ plan = NoOrganizePlan
  /\ undoStack = <<>>
  /\ history = <<>>
  /\ snaps = <<>>
  /\ runs = 0
  /\ last = NoObs
  /\ step = "select"
  /\ uiPlan = NoPlan
  /\ reqs = <<>>
  /\ child = NoChild

NextOracle == OracleAnalyze \/ OracleRescan

SpecOracle == InitOracle /\ [][NextOracle]_vars

----------------------------------------------------------------------------
(* Content across one run of fs:executeOrganize, checked under SpecEngine   *)
(* and SpecKeep *)

\* the files of the folder as the run found them that hold what p held and
\* that the plan does not list for removal: the keepers of p's group
Keepers(p) ==
  {q \in DOMAIN last.pre.files :
     last.pre.files[q] = last.pre.files[p] /\ q \notin Range(plan.duplicatesToDelete)}

\* C31: a run of fs:executeOrganize loses no content. Whatever a file of the
\* folder held before the run is held after the run by the file at its
\* original path, by the file at the destination of a move or rename the
\* run logged, or by the backup of a removal the run logged; and whenever
\* the plan leaves a file of a group of equal files out of its removals,
\* what the group held is still held by a file of the folder tree.
C31_NoContentLost ==
  (engine \in {"ipc", "keep"} /\ last.kind = "execute") =>
    \A p \in DOMAIN last.pre.files :
      LET c == last.pre.files[p]
          ops == last.operations
      IN /\ \/ p \in DOMAIN files /\ files[p] = c
            \/ \E i \in DOMAIN ops :
                 /\ ops[i].type \in {"move", "rename"}
                 /\ ops[i].to \in DOMAIN files /\ files[ops[i].to] = c
            \/ \E i \in DOMAIN ops :
                 /\ ops[i].type = "delete"
                 /\ ops[i].backupPath \in DOMAIN backups
                 /\ backups[ops[i].backupPath] = c
         /\ (Keepers(p) # {} /\ \E q \in DOMAIN last.pre.files : q # p /\ last.pre.files[q] = c)
              => \E q \in DOMAIN files : files[q] = c

----------------------------------------------------------------------------
(* The log of a successful run, checked under SpecEngine *)

\* the operations of one type, in the order of the log
OpsOfType(ops, T) == SelectSeq(ops, LAMBDA o : o.type \in T)

----------------------------------------------------------------------------
(* The analysis after the oracle's answers are merged, checked under        *)
(* SpecScan *)

\* the entries of the answer that are files and have the final category c
FinalMembers(c) ==
  {i \in DOMAIN last.results :
     ~Flag(last.files[i], "isDirectory") /\ last.results[i].category = c}

\* C33: in the answer of ai:analyzeFiles every entry that is neither a
\* directory nor a shortcut and whose category, after the oracle's answers
\* are merged, is in categoriesNeedingFolders has needsMove; and a category
\* is in categoriesNeedingFolders exactly if at least 3 files have it as
\* their final category and it is neither Shortcut nor Other.
C33_MoveByFinalCategory ==
  last.kind = "analyzeFiles" =>
    /\ \A i \in DOMAIN last.results :
         (/\ ~Flag(last.files[i], "isDirectory")
          /\ ~(isShortcutOrLink(last.files[i].name) \/ Flag(last.files[i], "isSymlink"))
          /\ last.results[i].category \in last.categoriesNeedingFolders)
           => last.results[i].needsMove
    /\ \A c \in CategoryType :
         c \in last.categoriesNeedingFolders
           <=> (Cardinality(FinalMembers(c)) >= FolderThreshold
                  /\ c \notin {"Shortcut", "Other"})

----------------------------------------------------------------------------
(* The oracle's part in the analysis, checked under SpecOracle *)

----------------------------------------------------------------------------
(* Unreadable files in duplicate detection, checked under SpecDup *)

\* the paths of a group, in the group's order, without the paths in `out`
PathsWithout(group, out) ==
  LET kept == SelectSeq(group.files, LAMBDA f : f.path \notin out)
  IN [i \in DOMAIN kept |-> kept[i].path]

\* C35: fs:detectDuplicates answers success whether or not a file could be
\* read; a file that could not be read is in no group, every group has at
\* least two files, and the groups are the candidate groups, those the
\* handler forms when every file can be read, without the unreadable files
\* and without the groups this leaves with fewer than two files.
C35_UnreadableLeftOut ==
  last.kind = "detectDuplicates" =>
    LET candidates == detectDuplicates(World, last.files)
    IN /\ last.success
       /\ \A g \in DOMAIN last.duplicates :
            /\ Len(last.duplicates[g].files) >= 2
            /\ \A i \in DOMAIN last.duplicates[g].files :
                 last.duplicates[g].files[i].path \notin last.unreadable
       /\ {PathsWithout(last.duplicates[g], {}) : g \in DOMAIN last.duplicates}
            = {ps \in {PathsWithout(candidates[g], last.unreadable) :
                         g \in DOMAIN candidates} : Len(ps) >= 2}

\* C35 witness: the unreadable file has the content and size of one other
\* file, which is in no group; two more files form the only group.
C35_Witness ==
  /\ last.kind = "detectDuplicates"
  /\ last.success
  /\ Len(last.duplicates) = 1
  /\ \E p \in last.unreadable :
       \E f \in Range(last.files) :
         /\ f.path # p /\ f.size # 0
         /\ files[f.path] = files[p]
         /\ \A i \in DOMAIN last.duplicates[1].files :
              last.duplicates[1].files[i].path \notin {p, f.path}

----------------------------------------------------------------------------
(* FileService.undoOrganize with an identifier, checked under SpecHist *)

\* the paths the operations of a log name
PathsOfLog(operations) ==
  {operations[i].from : i \in DOMAIN operations}
    \cup {operations[i].to : i \in DOMAIN operations}

\* C36: a call of FileService.undoOrganize(historyId) with the identifier of
\* a log of the history succeeds, rolls back exactly the operations of that
\* log, newest first, leaves every file no operation of the log names as it
\* was, and takes that log, and no other, out of the history, the other
\* logs keeping their order; a call with an identifier no log has answers
\* with an error and leaves files, directories and history as they were.
C36_UndoById ==
  [][\A historyId \in {UnknownId} \cup {history[i].id : i \in DOMAIN history} :
       SvcUndoOrganize(historyId) =>
         IF \E i \in DOMAIN history : history[i].id = historyId
         THEN \E i \in DOMAIN history :
                /\ history[i].id = historyId
                /\ last'.kind = "undo" /\ last'.success
                /\ last'.attempts = Reverse(history[i].operations)
                /\ \A p \in (DOMAIN files \cup DOMAIN files')
                              \ PathsOfLog(history[i].operations) :
                     /\ p \in DOMAIN files /\ p \in DOMAIN files'
                     /\ files'[p] = files[p]
                /\ history' = SelectSeq(history, LAMBDA h : h.id # historyId)
                /\ Len(history') = Len(history) - 1
         ELSE /\ last'.kind = "undo-empty" /\ ~last'.success
              /\ history' = history
              /\ files' = files /\ dirs' = dirs /\ backups' = backups]_vars

\* C36 witness: with three logs in the history, each of a run that moved a
\* file, the middle one was undone by its identifier: its file is back, the
\* files of the other two runs are where the runs put them, and the oldest
\* and the newest log are the history, in that order.
C36_Witness ==
  /\ engine = "hist"
  /\ last.kind = "undo" /\ last.success
  /\ Len(last.stackBefore) = 3
  /\ history = <<last.stackBefore[1], last.stackBefore[3]>>
  /\ last.operations = last.stackBefore[2].operations
  /\ last.attempts = Reverse(last.operations)
  /\ last.restored = 1
  /\ \A i \in {1, 3} : \E k \in DOMAIN last.stackBefore[i].operations :
       LET op == last.stackBefore[i].operations[k]
       IN op.type = "move" /\ op.to \in DOMAIN files /\ op.from \notin DOMAIN files
  /\ \E k \in DOMAIN last.operations :
       /\ last.operations[k].type = "move"
       /\ last.operations[k].from \in DOMAIN files
       /\ last.operations[k].to \notin DOMAIN files

\* a call with an identifier no log has, on a history that has a log
C36_WitnessMissing ==
  /\ engine = "hist"
  /\ last.kind = "undo-empty"
  /\ history # <<>>

----------------------------------------------------------------------------
(* AIService.initialize, checked under SpecInit *)

\* isOpenCodeAvailable(): return this.opencodeAvailable
isOpenCodeAvailable == child.opencodeAvailable

\* C37: once the 'close' handler of initialize has seen the exit code 0,
\* isOpenCodeAvailable() is true, at that moment and ever after.
C37_AvailableStaysTrue ==
  (engine = "init" /\ child.code = "0") => isOpenCodeAvailable

----------------------------------------------------------------------------
(* callOpencode, checked under SpecCallFair *)

----------------------------------------------------------------------------
(* The date of a suggested name, checked under SpecName *)

\* the first eight characters of a suggested name
DateToken(suggestedName) == SubSeq(Chars(suggestedName), 1, 8)

\* C39: the suggested name of a scanned file that is renamed starts with
\* the date-like part of its name when it has one and with the day of the
\* modification time the scan gave otherwise, never with the day of the
\* analysis.
C39_DateOfSuggestedName ==
  (last.kind = "analyzeName" /\ last.round = 1 /\ last.result.needsRename) =>
    /\ DateToken(last.result.suggestedName)
         = extractDateFromFile(last.name, EntryOf(last.name).modifiedTime)
    /\ extractDateFromFile(last.name, Undefined) = DateOf(CurrentDate)
         => DateToken(last.result.suggestedName) # DateOf(CurrentDate)

====
